---- MODULE Spec2Model ----
(***************************************************************************)
(* A model of the pak-pacul ("Bambang DB") storage engine: the slotted     *)
(* page, the row/value codec, the B+-tree, the storage manager with its    *)
(* catalog page, and the sequential scanner.                               *)
(*                                                                         *)
(* Byte strings (Vec<u8>, &[u8]) are kept run-length encoded: a byte       *)
(* string is a sequence of runs <<byte, count>>, count >= 1, adjacent runs *)
(* carrying different bytes.  The encoding is canonical, so two byte       *)
(* strings are equal iff their run sequences are equal.  Offsets are       *)
(* 0-based as in the source.                                               *)
(***************************************************************************)
EXTENDS Integers, Sequences, FiniteSets, TLC

\* ---------------------------------------------------------------- constants
PAGE_SIZE == 4096
PAGE_HEADER_SIZE == 36
SLOT_DIRECTORY_ENTRY_SIZE == 4
BAMBANG_HEADER_SIZE == 100
SERIALIZED_SIZE == 12
TREE_ORDER == 4

\* Option::None for page ids and row ids
None == -1

\* Let(v, F) is F applied to the value v: the result of a call is bound once
\* and used in the steps that follow it.
Let(v, F(_)) == F(v)

\* ------------------------------------------------------------- byte strings
\* Byte strings are split in halves rather than walked run by run, which
\* keeps the evaluation shallow on strings of many runs.
RECURSIVE BLen(_)
BLen(bs) ==
    IF bs = <<>> THEN 0
    ELSE IF Len(bs) = 1 THEN bs[1][2]
    ELSE BLen(SubSeq(bs, 1, Len(bs) \div 2)) + BLen(SubSeq(bs, Len(bs) \div 2 + 1, Len(bs)))

\* the concatenation of two canonical byte strings
BCat(a, b) ==
    IF a = <<>> THEN b
    ELSE IF b = <<>> THEN a
    ELSE IF a[Len(a)][1] = b[1][1]
    THEN SubSeq(a, 1, Len(a) - 1) \o << <<b[1][1], a[Len(a)][2] + b[1][2]>> >> \o Tail(b)
    ELSE a \o b

\* the canonical form of a sequence of runs
RECURSIVE BNorm(_)
BNorm(bs) ==
    IF bs = <<>> THEN <<>>
    ELSE IF Len(bs) = 1 THEN (IF bs[1][2] = 0 THEN <<>> ELSE << <<bs[1][1], bs[1][2]>> >>)
    ELSE BCat(BNorm(SubSeq(bs, 1, Len(bs) \div 2)),
              BNorm(SubSeq(bs, Len(bs) \div 2 + 1, Len(bs))))

BRun(b, n) == IF n <= 0 THEN <<>> ELSE << <<b, n>> >>

\* a literal byte string given as a plain sequence of bytes
Raw(s) == BNorm([i \in 1..Len(s) |-> <<s[i], 1>>])

RECURSIVE BTake(_, _)
BTake(bs, n) ==
    IF n <= 0 \/ bs = <<>> THEN <<>>
    ELSE IF Len(bs) = 1 THEN << <<bs[1][1], IF bs[1][2] < n THEN bs[1][2] ELSE n>> >>
    ELSE LET l == SubSeq(bs, 1, Len(bs) \div 2)
             r == SubSeq(bs, Len(bs) \div 2 + 1, Len(bs))
         IN  IF n <= BLen(l) THEN BTake(l, n) ELSE l \o BTake(r, n - BLen(l))

RECURSIVE BDrop(_, _)
BDrop(bs, n) ==
    IF bs = <<>> THEN <<>>
    ELSE IF n <= 0 THEN bs
    ELSE IF Len(bs) = 1 THEN BRun(bs[1][1], bs[1][2] - n)
    ELSE LET l == SubSeq(bs, 1, Len(bs) \div 2)
             r == SubSeq(bs, Len(bs) \div 2 + 1, Len(bs))
         IN  IF n >= BLen(l) THEN BDrop(r, n - BLen(l)) ELSE BDrop(l, n) \o r

\* bytes[s..e]
BSlice(bs, s, e) == BTake(BDrop(bs, s), e - s)

\* bytes[i]
BAt(bs, i) == Head(BDrop(bs, i))[1]

\* d[s..s+x.len()].copy_from_slice(x)
BWrite(d, s, x) == BCat(BCat(BTake(d, s), x), BDrop(d, s + BLen(x)))

\* d[s..e].fill(b)
BFill(d, s, e, b) == IF e <= s THEN d ELSE BWrite(d, s, BRun(b, e - s))

\* n.to_le_bytes() for a w-byte unsigned integer
RECURSIVE LE(_, _)
LE(n, w) == IF w = 0 THEN <<>> ELSE BCat(BRun(n % 256, 1), LE(n \div 256, w - 1))

\* Integers of the model stay below 2^24; a little-endian field whose value
\* is larger decodes to HugeInt, which exceeds every length and page id the
\* model handles.
HugeInt == 16777216

\* uN::from_le_bytes(bs[0..w])
FromLE(bs, w) ==
    IF \E i \in 3..(w - 1) : BAt(bs, i) # 0 THEN HugeInt
    ELSE BAt(bs, 0) + 256 * BAt(bs, 1) + 65536 * BAt(bs, 2)

\* lexicographic comparison of two byte strings (Vec<u8> / String ordering)
RECURSIVE BCmp(_, _)
BCmp(a, b) ==
    IF a = <<>> /\ b = <<>> THEN "Equal"
    ELSE IF a = <<>> THEN "Less"
    ELSE IF b = <<>> THEN "Greater"
    ELSE IF Head(a)[1] < Head(b)[1] THEN "Less"
    ELSE IF Head(a)[1] > Head(b)[1] THEN "Greater"
    ELSE LET m == IF Head(a)[2] < Head(b)[2] THEN Head(a)[2] ELSE Head(b)[2]
         IN  BCmp(BDrop(a, m), BDrop(b, m))

\* ------------------------------------------------------------------- Value
\* A Value is a record [t, i, s]: the variant, its integer payload (Integer,
\* Timestamp, Boolean as 0/1, Real as its bit pattern) and its byte payload
\* (Text, Blob).  Integer payloads of the model are non-negative.
VNull == [t |-> "Null", i |-> 0, s |-> <<>>]
VInt(n) == [t |-> "Integer", i |-> n, s |-> <<>>]
VText(bs) == [t |-> "Text", i |-> 0, s |-> bs]
VBlob(bs) == [t |-> "Blob", i |-> 0, s |-> bs]
VBool(b) == [t |-> "Boolean", i |-> IF b THEN 1 ELSE 0, s |-> <<>>]
VReal(bits) == [t |-> "Real", i |-> bits, s |-> <<>>]
VTimestamp(n) == [t |-> "Timestamp", i |-> n, s |-> <<>>]

\* a mutant of is_compatible_with_type without the two coercions
is_compatible_same_type(v, data_type) == v.t = "Null" \/ v.t = data_type

\* Value::is_compatible_with_type
is_compatible_with_type(v, data_type) ==
    CASE v.t = "Null" -> TRUE
      [] v.t = "Integer" /\ data_type = "Integer" -> TRUE
      [] v.t = "Real" /\ data_type = "Real" -> TRUE
      [] v.t = "Text" /\ data_type = "Text" -> TRUE
      [] v.t = "Blob" /\ data_type = "Blob" -> TRUE
      [] v.t = "Boolean" /\ data_type = "Boolean" -> TRUE
      [] v.t = "Timestamp" /\ data_type = "Timestamp" -> TRUE
      [] v.t = "Integer" /\ data_type = "Real" -> TRUE
      [] v.t = "Boolean" /\ data_type = "Integer" -> TRUE
      [] OTHER -> FALSE

Value_to_bytes(v) ==
    CASE v.t = "Null" -> Raw(<<0>>)
      [] v.t = "Integer" -> BCat(Raw(<<1>>), LE(v.i, 8))
      [] v.t = "Real" -> BCat(Raw(<<2>>), LE(v.i, 8))
      [] v.t = "Text" -> BCat(BCat(Raw(<<3>>), LE(BLen(v.s), 4)), v.s)
      [] v.t = "Blob" -> BCat(BCat(Raw(<<4>>), LE(BLen(v.s), 4)), v.s)
      [] v.t = "Boolean" -> Raw(<<5, v.i>>)
      [] v.t = "Timestamp" -> BCat(Raw(<<6>>), LE(v.i, 8))

VErr == [ok |-> FALSE, v |-> VNull, consumed |-> 0]

\* Value::from_bytes: the buffer must hold exactly one value
Value_from_bytes(bytes) ==
    IF bytes = <<>> THEN VErr
    ELSE Let(BAt(bytes, 0), LAMBDA tag :
         Let(BDrop(bytes, 1), LAMBDA data :
         Let(BLen(data), LAMBDA n :
             CASE tag = 0 -> [ok |-> TRUE, v |-> VNull, consumed |-> 1]
               [] tag \in {1, 2, 6} ->
                    IF n # 8 THEN VErr
                    ELSE [ok |-> TRUE, consumed |-> 9,
                          v |-> [t |-> CASE tag = 1 -> "Integer" [] tag = 2 -> "Real" [] OTHER -> "Timestamp",
                                 i |-> FromLE(data, 8), s |-> <<>>]]
               [] tag \in {3, 4} ->
                    IF n < 4 THEN VErr
                    ELSE IF n # 4 + FromLE(data, 4) THEN VErr
                    ELSE [ok |-> TRUE, consumed |-> 1 + n,
                          v |-> [t |-> IF tag = 3 THEN "Text" ELSE "Blob", i |-> 0,
                                 s |-> BDrop(data, 4)]]
               [] tag = 5 ->
                    IF n # 1 THEN VErr
                    ELSE [ok |-> TRUE, consumed |-> 2, v |-> VBool(BAt(data, 0) # 0)]
               [] OTHER -> VErr)))

\* Value::partial_cmp, for the variants the model uses as keys; "None" is
\* the incomparable outcome (a Text that does not parse as a number against
\* a number: the model's texts never parse as numbers)
IntCmp(a, b) == IF a < b THEN "Less" ELSE IF a > b THEN "Greater" ELSE "Equal"

partial_cmp(a, b) ==
    CASE a.t = "Null" /\ b.t = "Null" -> "Equal"
      [] a.t = "Null" /\ b.t # "Null" -> "Less"
      [] a.t # "Null" /\ b.t = "Null" -> "Greater"
      [] a.t = b.t /\ a.t \in {"Integer", "Boolean", "Timestamp"} -> IntCmp(a.i, b.i)
      [] a.t = b.t /\ a.t \in {"Text", "Blob"} -> BCmp(a.s, b.s)
      [] a.t # b.t /\ {a.t, b.t} \subseteq {"Integer", "Boolean", "Timestamp"} -> IntCmp(a.i, b.i)
      [] OTHER -> "None"

\* --------------------------------------------------------------------- Row
\* A Row is [row_id, values]; row_id = None when absent.
Row_new(values) == [row_id |-> None, values |-> values]

RECURSIVE SerializeValues(_)
SerializeValues(vs) ==
    IF vs = <<>> THEN <<>> ELSE BCat(Value_to_bytes(Head(vs)), SerializeValues(Tail(vs)))

Row_to_bytes(row) ==
    BCat(BCat(IF row.row_id # None THEN BCat(Raw(<<1>>), LE(row.row_id, 8)) ELSE Raw(<<0>>),
              LE(Len(row.values), 4)),
         SerializeValues(row.values))

RECURSIVE RowSize(_)
RowSize(vs) ==
    IF vs = <<>> THEN 0
    ELSE (CASE Head(vs).t = "Null" -> 1
            [] Head(vs).t \in {"Integer", "Real", "Timestamp"} -> 9
            [] Head(vs).t \in {"Text", "Blob"} -> 5 + BLen(Head(vs).s)
            [] Head(vs).t = "Boolean" -> 2) + RowSize(Tail(vs))

\* a mutant of Row::size that leaves out the row id flag
Row_size_without_flag(row) == (IF row.row_id # None THEN 8 ELSE 0) + 4 + RowSize(row.values)

Row_size(row) == 1 + (IF row.row_id # None THEN 8 ELSE 0) + 4 + RowSize(row.values)

\* Row::deserialize_value_compact: one value at the front of the buffer
deserialize_value_compact(bytes) ==
    IF bytes = <<>> THEN VErr
    ELSE Let(BAt(bytes, 0), LAMBDA tag :
         Let(BLen(bytes), LAMBDA n :
             CASE tag = 0 -> [ok |-> TRUE, v |-> VNull, consumed |-> 1]
               [] tag \in {1, 2, 6} ->
                    IF 1 + 8 > n THEN VErr
                    ELSE [ok |-> TRUE, consumed |-> 9,
                          v |-> [t |-> CASE tag = 1 -> "Integer" [] tag = 2 -> "Real" [] OTHER -> "Timestamp",
                                 i |-> FromLE(BDrop(bytes, 1), 8), s |-> <<>>]]
               [] tag \in {3, 4} ->
                    IF 1 + 4 > n THEN VErr
                    ELSE Let(FromLE(BDrop(bytes, 1), 4), LAMBDA length :
                             IF 5 + length > n THEN VErr
                             ELSE [ok |-> TRUE, consumed |-> 5 + length,
                                   v |-> [t |-> IF tag = 3 THEN "Text" ELSE "Blob", i |-> 0,
                                          s |-> BSlice(bytes, 5, 5 + length)]])
               [] tag = 5 ->
                    IF 1 >= n THEN VErr
                    ELSE [ok |-> TRUE, consumed |-> 2, v |-> VBool(BAt(bytes, 1) # 0)]
               [] OTHER -> VErr))

RowErr == [ok |-> FALSE, row |-> Row_new(<<>>)]

\* the value loop of Row::from_bytes
RECURSIVE ParseValues(_, _, _)
ParseValues(bytes, count, acc) ==
    IF count = 0 THEN [ok |-> TRUE, values |-> acc]
    ELSE Let(deserialize_value_compact(bytes), LAMBDA r :
             IF ~r.ok THEN [ok |-> FALSE, values |-> acc]
             ELSE ParseValues(BDrop(bytes, r.consumed), count - 1, Append(acc, r.v)))

Row_from_bytes(bytes) ==
    IF bytes = <<>> THEN RowErr
    ELSE Let(BAt(bytes, 0) = 1, LAMBDA hasId :
         Let(IF hasId THEN 9 ELSE 1, LAMBDA cursor :
         Let(BLen(bytes), LAMBDA n :
             IF hasId /\ 1 + 8 > n THEN RowErr
             ELSE IF cursor + 4 > n THEN RowErr
             ELSE Let(ParseValues(BDrop(bytes, cursor + 4), FromLE(BDrop(bytes, cursor), 4), <<>>),
                      LAMBDA vs :
                      IF ~vs.ok THEN RowErr
                      ELSE [ok |-> TRUE,
                            row |-> [row_id |-> IF hasId THEN FromLE(BDrop(bytes, 1), 8) ELSE None,
                                     values |-> vs.values]]))))

\* -------------------------------------------------------------------- Page
\* SlotEntry: overflow_pointer is <<>> (None) or <<page_id, total_size>>
new_regular(offset, length, row_id) ==
    [offset |-> offset, length |-> length, row_id |-> row_id,
     is_overflow |-> FALSE, overflow_pointer |-> <<>>]

new_overflow(offset, length, row_id, pointer) ==
    [offset |-> offset, length |-> length, row_id |-> row_id,
     is_overflow |-> TRUE, overflow_pointer |-> pointer]

is_deleted(slot) == slot.length = 0 /\ slot.row_id = None

\* calculate_page_checksum.  CRC-32 is modelled as injective: the checksum
\* is the tuple of everything the hasher is fed, so two checksums are equal
\* iff the hashed contents are equal.
calculate_page_checksum(page_id, page_type, parent, next_leaf, cell_count, fso, slots, has_data, data) ==
    [page_id |-> page_id, page_type |-> page_type, parent |-> parent,
     next_leaf |-> next_leaf, cell_count |-> cell_count, fso |-> fso,
     slots |-> [i \in 1..Len(slots) |->
                   <<slots[i].offset, slots[i].length, IF slots[i].is_overflow THEN 1 ELSE 0>>],
     data |-> IF has_data THEN BDrop(data, fso) ELSE <<>>]

PageChecksum(p) ==
    calculate_page_checksum(p.page_id, p.page_type, p.parent_page_id, p.next_leaf_page_id,
                            p.cell_count, p.free_space_offset, p.slots, p.has_data, p.data)

update_checksum(p) == [p EXCEPT !.checksum = PageChecksum(p)]

verify_checksum(p) == PageChecksum(p) = p.checksum

\* Page::new
Page_new(page_id, page_type) ==
    update_checksum(
        [page_id |-> page_id, page_type |-> page_type, parent_page_id |-> None,
         next_leaf_page_id |-> None, is_dirty |-> FALSE, slots |-> <<>>,
         free_space_offset |-> PAGE_SIZE, cell_count |-> 0,
         has_data |-> TRUE, data |-> BRun(0, PAGE_SIZE),
         checksum |-> <<>>, overflow_pages |-> <<>>])

is_metadata_only(p) == ~p.has_data

needs_overflow(data_size) == data_size > (PAGE_SIZE \div 4)

available_space(p) ==
    LET slot_directory_size == Len(p.slots) * SLOT_DIRECTORY_ENTRY_SIZE
        used_data_space == PAGE_SIZE - p.free_space_offset
        need == PAGE_HEADER_SIZE + slot_directory_size + used_data_space
    IN  IF need > PAGE_SIZE THEN 0 ELSE PAGE_SIZE - need

can_fit(p, data_size) == available_space(p) >= data_size + SLOT_DIRECTORY_ENTRY_SIZE

\* results of page operations: ret is the returned slot index (0-based)
POk(p, ret) == [ok |-> TRUE, err |-> "", page |-> p, ret |-> ret]
PErr(p, e) == [ok |-> FALSE, err |-> e, page |-> p, ret |-> -1]

\* Page::get_cell: [some, bytes]
get_cell(p, slot_index) ==
    IF ~p.has_data \/ slot_index < 0 \/ slot_index >= Len(p.slots)
    THEN [some |-> FALSE, bytes |-> <<>>]
    ELSE LET slot == p.slots[slot_index + 1]
         IN  IF slot.length = 0 /\ slot.row_id = None THEN [some |-> FALSE, bytes |-> <<>>]
             ELSE IF slot.offset + slot.length <= BLen(p.data)
                  THEN [some |-> TRUE, bytes |-> BSlice(p.data, slot.offset, slot.offset + slot.length)]
                  ELSE [some |-> FALSE, bytes |-> <<>>]

\* a mutant of insert_cell that reports a cell that does not fit as
\* needing an overflow page
insert_cell_overflow_error(p, data, row_id) ==
    IF is_metadata_only(p) THEN PErr(p, "SerializationError")
    ELSE IF ~can_fit(p, BLen(data)) THEN PErr(p, "OverflowPageRequired")
    ELSE LET new_offset == p.free_space_offset - BLen(data)
         IN  POk(update_checksum(
                   [p EXCEPT !.data = BWrite(p.data, new_offset, data),
                             !.slots = Append(p.slots, new_regular(new_offset, BLen(data), row_id)),
                             !.free_space_offset = new_offset,
                             !.cell_count = Len(p.slots) + 1,
                             !.is_dirty = TRUE]), Len(p.slots))

\* a mutant of insert_cell that leaves cell_count at its old value
insert_cell_count_kept(p, data, row_id) ==
    IF is_metadata_only(p) THEN PErr(p, "SerializationError")
    ELSE IF ~can_fit(p, BLen(data)) THEN PErr(p, "PageFull")
    ELSE LET new_offset == p.free_space_offset - BLen(data)
         IN  POk(update_checksum(
                   [p EXCEPT !.data = BWrite(p.data, new_offset, data),
                             !.slots = Append(p.slots, new_regular(new_offset, BLen(data), row_id)),
                             !.free_space_offset = new_offset,
                             !.is_dirty = TRUE]), Len(p.slots))

\* a mutant of insert_cell that leaves the stored checksum stale
insert_cell_stale(p, data, row_id) ==
    IF is_metadata_only(p) THEN PErr(p, "SerializationError")
    ELSE IF ~can_fit(p, BLen(data)) THEN PErr(p, "PageFull")
    ELSE LET new_offset == p.free_space_offset - BLen(data)
         IN  POk([p EXCEPT !.data = BWrite(p.data, new_offset, data),
                           !.slots = Append(p.slots, new_regular(new_offset, BLen(data), row_id)),
                           !.free_space_offset = new_offset,
                           !.cell_count = Len(p.slots) + 1,
                           !.is_dirty = TRUE], Len(p.slots))

\* Page::insert_cell
insert_cell(p, data, row_id) ==
    IF is_metadata_only(p) THEN PErr(p, "SerializationError")
    ELSE IF ~can_fit(p, BLen(data)) THEN PErr(p, "PageFull")
    ELSE LET new_offset == p.free_space_offset - BLen(data)
             q == [p EXCEPT !.data = BWrite(p.data, new_offset, data),
                            !.slots = Append(p.slots, new_regular(new_offset, BLen(data), row_id)),
                            !.free_space_offset = new_offset,
                            !.cell_count = Len(p.slots) + 1,
                            !.is_dirty = TRUE]
         IN  POk(update_checksum(q), Len(p.slots))

\* OverflowPointer::serialize_to_vec
serialize_to_vec(ptr) == BCat(LE(ptr[1], 8), LE(ptr[2], 4))

\* Page::insert_cell_with_overflow; overflow_page_id = None when absent
insert_cell_with_overflow(p, data, row_id, overflow_page_id) ==
    IF is_metadata_only(p) THEN PErr(p, "SerializationError")
    ELSE IF overflow_page_id # None \/ needs_overflow(BLen(data))
    THEN IF overflow_page_id # None
         THEN LET p1 == [p EXCEPT !.overflow_pages = Append(p.overflow_pages, overflow_page_id)]
                  overflow_ptr == <<overflow_page_id, BLen(data)>>
                  overflow_data == serialize_to_vec(overflow_ptr)
                  new_offset == p1.free_space_offset - BLen(overflow_data)
              IN  IF ~can_fit(p1, BLen(overflow_data)) THEN PErr(p1, "PageFull")
                  ELSE POk(update_checksum(
                             [p1 EXCEPT !.data = BWrite(p1.data, new_offset, overflow_data),
                                        !.slots = Append(p1.slots,
                                            new_overflow(new_offset, BLen(overflow_data), row_id, overflow_ptr)),
                                        !.free_space_offset = new_offset,
                                        !.cell_count = Len(p1.slots) + 1,
                                        !.is_dirty = TRUE]), Len(p1.slots))
         ELSE PErr(p, "OverflowPageRequired")
    ELSE insert_cell(p, data, row_id)

\* a mutant of delete_cell that does not look at the mode of the page
delete_cell_any_mode(p, slot_index) ==
    IF slot_index >= Len(p.slots) THEN PErr(p, "InvalidSlotIndex")
    ELSE IF is_deleted(p.slots[slot_index + 1]) THEN PErr(p, "InvalidSlotIndex")
    ELSE POk(update_checksum(
               [p EXCEPT !.slots[slot_index + 1] =
                             [offset |-> 0, length |-> 0, row_id |-> None,
                              is_overflow |-> FALSE, overflow_pointer |-> <<>>],
                         !.is_dirty = TRUE]), -1)

\* a mutant of delete_cell that leaves the row id of the slot in place
delete_cell_keeps_row_id(p, slot_index) ==
    IF is_metadata_only(p) THEN PErr(p, "SerializationError")
    ELSE IF slot_index >= Len(p.slots) THEN PErr(p, "InvalidSlotIndex")
    ELSE IF is_deleted(p.slots[slot_index + 1]) THEN PErr(p, "InvalidSlotIndex")
    ELSE POk(update_checksum(
               [p EXCEPT !.slots[slot_index + 1].offset = 0,
                         !.slots[slot_index + 1].length = 0,
                         !.is_dirty = TRUE]), -1)

\* Page::delete_cell
delete_cell(p, slot_index) ==
    IF is_metadata_only(p) THEN PErr(p, "SerializationError")
    ELSE IF slot_index >= Len(p.slots) THEN PErr(p, "InvalidSlotIndex")
    ELSE IF is_deleted(p.slots[slot_index + 1]) THEN PErr(p, "InvalidSlotIndex")
    ELSE LET old == p.slots[slot_index + 1]
             ovf == IF old.is_overflow /\ old.overflow_pointer # <<>>
                    THEN SelectSeq(p.overflow_pages, LAMBDA id : id # old.overflow_pointer[1])
                    ELSE p.overflow_pages
         IN  POk(update_checksum(
                   [p EXCEPT !.slots[slot_index + 1] =
                                 [offset |-> 0, length |-> 0, row_id |-> None,
                                  is_overflow |-> FALSE, overflow_pointer |-> <<>>],
                             !.overflow_pages = ovf,
                             !.is_dirty = TRUE]), -1)

\* sum of the lengths of the non-deleted slots
RECURSIVE ActiveDataSize(_)
ActiveDataSize(slots) ==
    IF slots = <<>> THEN 0
    ELSE (IF is_deleted(Head(slots)) THEN 0 ELSE Head(slots).length) + ActiveDataSize(Tail(slots))

\* Page::get_fragmentation_ratio() > 0.5, wasted / used compared in integers
FragmentationAboveHalf(p) ==
    LET used_space == PAGE_SIZE - p.free_space_offset
        active_data_size == ActiveDataSize(p.slots)
    IN  /\ p.slots # <<>>
        /\ used_space # 0
        /\ active_data_size # 0
        /\ 2 * (used_space - active_data_size) > used_space

\* the rewrite loop of Page::compact: the active cells (slot numbers idxs,
\* bytes cells[i]) are laid out from the page end backwards, last slot first
\* a mutant of the rewrite loop that moves the bytes but leaves the slot
\* offsets where they were
RECURSIVE CompactRewrite_stale_offsets(_, _, _, _)
CompactRewrite_stale_offsets(p, cells, idxs, fso) ==
    IF idxs = <<>> THEN [p EXCEPT !.free_space_offset = fso]
    ELSE LET i == idxs[Len(idxs)]
             nfso == fso - BLen(cells[i])
         IN  CompactRewrite_stale_offsets(
                 [p EXCEPT !.data = IF nfso + BLen(cells[i]) <= BLen(p.data)
                                    THEN BWrite(p.data, nfso, cells[i]) ELSE p.data],
                 cells, SubSeq(idxs, 1, Len(idxs) - 1), nfso)

RECURSIVE CompactRewrite(_, _, _, _)
CompactRewrite(p, cells, idxs, fso) ==
    IF idxs = <<>> THEN [p EXCEPT !.free_space_offset = fso]
    ELSE LET i == idxs[Len(idxs)]
             nfso == fso - BLen(cells[i])
         IN  CompactRewrite(
                 [p EXCEPT !.data = IF nfso + BLen(cells[i]) <= BLen(p.data)
                                    THEN BWrite(p.data, nfso, cells[i]) ELSE p.data,
                           !.slots[i].offset = nfso],
                 cells, SubSeq(idxs, 1, Len(idxs) - 1), nfso)

\* a mutant of compact that moves the cells but leaves free_space_offset
\* where it was
compact_keeps_free_space_offset(p) ==
    IF is_metadata_only(p) THEN PErr(p, "SerializationError")
    ELSE LET active == SelectSeq([i \in 1..Len(p.slots) |-> i],
                                 LAMBDA i : /\ ~is_deleted(p.slots[i])
                                            /\ p.slots[i].offset + p.slots[i].length <= BLen(p.data))
             cells == [i \in 1..Len(p.slots) |->
                          IF p.slots[i].offset + p.slots[i].length <= BLen(p.data)
                          THEN BSlice(p.data, p.slots[i].offset, p.slots[i].offset + p.slots[i].length)
                          ELSE <<>>]
             cleared == [p EXCEPT !.data = BFill(p.data, p.free_space_offset, BLen(p.data), 0),
                                  !.is_dirty = TRUE]
         IN  POk(update_checksum([CompactRewrite(cleared, cells, active, PAGE_SIZE)
                                     EXCEPT !.free_space_offset = p.free_space_offset]), -1)

\* Page::compact
compact(p) ==
    IF is_metadata_only(p) THEN PErr(p, "SerializationError")
    ELSE LET active == SelectSeq([i \in 1..Len(p.slots) |-> i],
                                 LAMBDA i : /\ ~is_deleted(p.slots[i])
                                            /\ p.slots[i].offset + p.slots[i].length <= BLen(p.data))
             cells == [i \in 1..Len(p.slots) |->
                          IF p.slots[i].offset + p.slots[i].length <= BLen(p.data)
                          THEN BSlice(p.data, p.slots[i].offset, p.slots[i].offset + p.slots[i].length)
                          ELSE <<>>]
             cleared == [p EXCEPT !.data = BFill(p.data, p.free_space_offset, BLen(p.data), 0),
                                  !.is_dirty = TRUE]
         IN  POk(update_checksum(CompactRewrite(cleared, cells, active, PAGE_SIZE)), -1)

\* Page::update_cell
update_cell(p, slot_index, new_data, row_id) ==
    IF is_metadata_only(p) THEN PErr(p, "SerializationError")
    ELSE IF slot_index >= Len(p.slots) THEN PErr(p, "InvalidSlotIndex")
    ELSE IF is_deleted(p.slots[slot_index + 1]) THEN PErr(p, "InvalidSlotIndex")
    ELSE LET slot == p.slots[slot_index + 1]
             old_length == slot.length
             new_length == BLen(new_data)
         IN  IF new_length = old_length
             THEN IF slot.offset + new_length <= BLen(p.data)
                  THEN POk(update_checksum(
                             [p EXCEPT !.data = BWrite(p.data, slot.offset, new_data),
                                       !.slots[slot_index + 1].row_id = row_id,
                                       !.is_dirty = TRUE]), -1)
                  ELSE PErr(p, "CorruptedPage")
             ELSE IF new_length < old_length
             THEN IF slot.offset + old_length <= BLen(p.data)
                  THEN LET q == update_checksum(
                                  [p EXCEPT !.data = BFill(BWrite(p.data, slot.offset, new_data),
                                                           slot.offset + new_length,
                                                           slot.offset + old_length, 0),
                                            !.slots[slot_index + 1].length = new_length,
                                            !.slots[slot_index + 1].row_id = row_id,
                                            !.is_dirty = TRUE])
                       IN  IF FragmentationAboveHalf(q) THEN POk(compact(q).page, -1) ELSE POk(q, -1)
                  ELSE PErr(p, "CorruptedPage")
             ELSE IF available_space(p) + old_length < new_length THEN PErr(p, "PageFull")
             ELSE LET c == compact([p EXCEPT !.slots[slot_index + 1].length = 0,
                                             !.slots[slot_index + 1].offset = 0]).page
                      new_offset == c.free_space_offset - new_length
                  IN  POk(update_checksum(
                            [c EXCEPT !.data = BWrite(c.data, new_offset, new_data),
                                      !.slots[slot_index + 1] = new_regular(new_offset, new_length, row_id),
                                      !.free_space_offset = new_offset,
                                      !.is_dirty = TRUE]), -1)

\* Page::is_slot_deleted
is_slot_deleted(p, slot_index) ==
    IF slot_index >= 0 /\ slot_index < Len(p.slots) THEN is_deleted(p.slots[slot_index + 1]) ELSE TRUE

\* Page::active_cell_count
active_cell_count(p) == Cardinality({i \in 1..Len(p.slots) : ~is_deleted(p.slots[i])})

\* ------------------------------------------------------ page serialization
\* The 4096-byte buffer of a page is the record of its header fields, its
\* slot directory entries <<offset, length>> and its byte image `data`.  In
\* the byte image the header and slot directory bytes are the marker
\* HeaderByte (they are never zero-filled cell bytes).
HeaderByte == -1

PageTypes == {"InteriorIndex", "InteriorTable", "LeafIndex", "LeafTable", "OverflowPage"}

\* Page::to_bytes (full data mode); the metadata-only error is in PageToBytesErr
to_bytes(p) ==
    LET dirEnd == PAGE_HEADER_SIZE + Len(p.slots) * SLOT_DIRECTORY_ENTRY_SIZE
        img0 == BWrite(BRun(0, PAGE_SIZE), 0, BRun(HeaderByte, dirEnd))
        img == IF p.free_space_offset < PAGE_SIZE /\ p.free_space_offset < BLen(p.data)
               THEN BWrite(img0, p.free_space_offset, BDrop(p.data, p.free_space_offset))
               ELSE img0
    IN  [page_id |-> p.page_id, page_type |-> p.page_type, parent |-> p.parent_page_id,
         next_leaf |-> p.next_leaf_page_id, cell_count |-> p.cell_count,
         fso |-> p.free_space_offset, checksum |-> p.checksum,
         slots |-> [i \in 1..Len(p.slots) |-> <<p.slots[i].offset, p.slots[i].length>>],
         data |-> img]

PageToBytesErr(p) == is_metadata_only(p)

\* a page of zero bytes (a hole of the file): its type byte is 0
ZeroBuffer ==
    [page_id |-> 0, page_type |-> "Zero", parent |-> 0, next_leaf |-> 0, cell_count |-> 0,
     fso |-> 0, checksum |-> <<>>, slots |-> <<>>, data |-> BRun(0, PAGE_SIZE)]

\* Page::read_slot_directory: the first cell_count directory entries; the
\* bytes behind the written directory read as zero entries
read_slot_directory(buf) ==
    [i \in 1..buf.cell_count |->
        IF i <= Len(buf.slots)
        THEN [offset |-> buf.slots[i][1], length |-> buf.slots[i][2], row_id |-> None,
              is_overflow |-> buf.slots[i][2] = SERIALIZED_SIZE, overflow_pointer |-> <<>>]
        ELSE [offset |-> 0, length |-> 0, row_id |-> None,
              is_overflow |-> FALSE, overflow_pointer |-> <<>>]]

SlotDirectoryCorrupt(buf) ==
    \E i \in 1..buf.cell_count :
        /\ i <= Len(buf.slots)
        /\ buf.slots[i][2] > 0
        /\ buf.slots[i][1] + buf.slots[i][2] > PAGE_SIZE

LoadedPage(buf, has_data) ==
    [page_id |-> buf.page_id, page_type |-> buf.page_type, parent_page_id |-> buf.parent,
     next_leaf_page_id |-> buf.next_leaf, is_dirty |-> FALSE,
     slots |-> read_slot_directory(buf), free_space_offset |-> buf.fso,
     cell_count |-> buf.cell_count, has_data |-> has_data,
     data |-> IF has_data THEN buf.data ELSE <<>>,
     checksum |-> buf.checksum, overflow_pages |-> <<>>]

\* Page::from_bytes
from_bytes(buf) ==
    IF buf.page_type \notin PageTypes THEN PErr(Page_new(0, "LeafTable"), "InvalidPageType")
    ELSE IF buf.fso > PAGE_SIZE THEN PErr(Page_new(0, "LeafTable"), "CorruptedPage")
    ELSE IF SlotDirectoryCorrupt(buf) THEN PErr(Page_new(0, "LeafTable"), "CorruptedPage")
    ELSE IF ~verify_checksum(LoadedPage(buf, TRUE)) THEN PErr(Page_new(0, "LeafTable"), "CorruptedPage")
    ELSE POk(LoadedPage(buf, TRUE), -1)

\* Page::from_header_bytes on the header and slot directory of a buffer
from_header_bytes(buf) ==
    IF buf.page_type \notin PageTypes THEN PErr(Page_new(0, "LeafTable"), "InvalidPageType")
    ELSE IF SlotDirectoryCorrupt(buf) THEN PErr(Page_new(0, "LeafTable"), "CorruptedPage")
    ELSE POk(LoadedPage(buf, FALSE), -1)

\* ------------------------------------------------------------------- file
\* The page array of the database file is a sequence of page buffers: page
\* id p is pages[p].  A write behind the end extends the file; a write
\* further out leaves a hole of zero pages.
RECURSIVE ZeroPages(_)
ZeroPages(n) == IF n <= 0 THEN <<>> ELSE <<ZeroBuffer>> \o ZeroPages(n - 1)

FileWrite(pages, page_id, buf) ==
    IF page_id <= Len(pages) THEN [pages EXCEPT ![page_id] = buf]
    ELSE pages \o ZeroPages(page_id - Len(pages) - 1) \o <<buf>>

\* ----------------------------------------------------------------- B+-tree
\* A BPlusTree is [root_page_id, pages (its view of the file's page array),
\* page_cache, next_page_id, allocated (the ids allocate_page handed out,
\* in order; history only), trace (the steps insert_recursive and insert
\* took, in order; history only)].
BPlusTree_new_with_extras(pages, root_page_id) ==
    [root_page_id |-> root_page_id, pages |-> pages, page_cache |-> <<>>,
     next_page_id |-> Len(pages) + 1, allocated |-> <<>>, trace |-> <<>>]

\* the tree with one more step in its history
Traced(t, step) == [t EXCEPT !.trace = Append(@, step)]

\* the result [ok, err, t, split] of a split function, with the call added
\* to the history of its tree
TracedSplit(r, kind, page, key, data) ==
    [r EXCEPT !.t = Traced(r.t, [kind |-> kind, ok |-> r.ok, page |-> page, key |-> key,
                                 data |-> data, split |-> r.split])]

\* page_cache is a function from cached page ids to pages
CacheHas(t, page_id) == page_id \in DOMAIN t.page_cache

CachePut(cache, page_id, page) ==
    [q \in (DOMAIN cache) \cup {page_id} |-> IF q = page_id THEN page ELSE cache[q]]

TOk(t) == [ok |-> TRUE, err |-> "", t |-> t]
TErr(t, e) == [ok |-> FALSE, err |-> e, t |-> t]

\* BPlusTree::load_page: [ok, err, t, page]
load_page(t, page_id) ==
    IF page_id = 0 THEN [ok |-> FALSE, err |-> "CorruptedPage", t |-> t, page |-> Page_new(0, "LeafTable")]
    ELSE IF page_id > Len(t.pages)
    THEN [ok |-> FALSE, err |-> "CorruptedPage", t |-> t, page |-> Page_new(0, "LeafTable")]
    ELSE IF CacheHas(t, page_id)
    THEN [ok |-> TRUE, err |-> "", t |-> t, page |-> t.page_cache[page_id]]
    ELSE Let(from_bytes(t.pages[page_id]), LAMBDA r :
             IF ~r.ok THEN [ok |-> FALSE, err |-> r.err, t |-> t, page |-> r.page]
             ELSE [ok |-> TRUE, err |-> "",
                   t |-> [t EXCEPT !.page_cache = CachePut(t.page_cache, page_id, r.page)],
                   page |-> r.page])

\* BPlusTree::write_page (page ids of the model are never 0 here and the
\* pages written are never metadata-only)
write_page(t, page_id, page) == [t EXCEPT !.pages = FileWrite(t.pages, page_id, to_bytes(page))]

\* BPlusTree::allocate_page: the new tree state; the id is t.next_page_id
allocate_page(t, page_type) ==
    LET new_page_id == t.next_page_id
    IN  write_page([t EXCEPT !.next_page_id = new_page_id + 1,
                             !.allocated = Append(t.allocated, new_page_id)],
                   new_page_id, Page_new(new_page_id, page_type))

\* BPlusTree::write_pages_batch: each page is written and cached
RECURSIVE write_pages_batch(_, _)
write_pages_batch(t, pages) ==
    IF pages = <<>> THEN t
    ELSE Let(write_page(t, Head(pages).page_id, Head(pages)), LAMBDA t1 :
             write_pages_batch(
                 [t1 EXCEPT !.page_cache = CachePut(t1.page_cache, Head(pages).page_id, Head(pages))],
                 Tail(pages)))

\* BPlusTree::create_interior_entry
create_interior_entry(key, page_id) ==
    BCat(BCat(LE(page_id, 8), LE(BLen(Value_to_bytes(key)), 4)), Value_to_bytes(key))

\* BPlusTree::parse_interior_entry: [ok, page_id, key]
parse_interior_entry(entry_data) ==
    IF BLen(entry_data) < 12 THEN [ok |-> FALSE, page_id |-> 0, key |-> VNull]
    ELSE Let(FromLE(BDrop(entry_data, 8), 4), LAMBDA key_length :
             IF BLen(entry_data) < 12 + key_length THEN [ok |-> FALSE, page_id |-> 0, key |-> VNull]
             ELSE Let(Value_from_bytes(BSlice(entry_data, 12, 12 + key_length)), LAMBDA k :
                      [ok |-> k.ok, page_id |-> FromLE(entry_data, 8), key |-> k.v]))

\* BPlusTree::extract_key_from_interior_entry
extract_key_from_interior_entry(entry_data) == parse_interior_entry(entry_data)

\* key <= entry_key under PartialOrd
ValueLe(a, b) == partial_cmp(a, b) \in {"Less", "Equal"}

\* BPlusTree::find_child_page: [ok, err, child]; the scan over the slots
RECURSIVE FindChild(_, _, _)
FindChild(page, key, i) ==
    IF i >= Len(page.slots) THEN [ok |-> FALSE, err |-> "CorruptedPage", child |-> 0]
    ELSE Let(get_cell(page, i), LAMBDA c :
             IF ~c.some
             THEN FindChild(page, key, i + 1)
             ELSE Let(parse_interior_entry(c.bytes), LAMBDA e :
                      IF ~e.ok THEN [ok |-> FALSE, err |-> "SerializationError", child |-> 0]
                      ELSE IF i < Len(page.slots) - 1
                      THEN IF ValueLe(key, e.key)
                           THEN [ok |-> TRUE, err |-> "", child |-> e.page_id]
                           ELSE FindChild(page, key, i + 1)
                      ELSE [ok |-> TRUE, err |-> "", child |-> e.page_id]))

\* a mutant of find_child_page that always takes the last entry
find_child_page_last(page, key) == FindChild(page, key, Len(page.slots) - 1)

find_child_page(page, key) == FindChild(page, key, 0)

\* the stable sort of sort_by(partial_cmp.unwrap_or(Equal)) on [key, data]
\* pairs: x goes behind every element that is not greater than it
RECURSIVE SortInsert(_, _)
SortInsert(sorted, x) ==
    IF sorted = <<>> THEN <<x>>
    ELSE IF partial_cmp(x.key, sorted[Len(sorted)].key) = "Less"
         THEN Append(SortInsert(SubSeq(sorted, 1, Len(sorted) - 1), x), sorted[Len(sorted)])
         ELSE Append(sorted, x)

RECURSIVE SortByKey(_)
SortByKey(cells) ==
    IF cells = <<>> THEN <<>>
    ELSE SortInsert(SortByKey(SubSeq(cells, 1, Len(cells) - 1)), cells[Len(cells)])

\* insert_cell(data, None) for a list of cells in turn: [ok, page]
RECURSIVE InsertAll(_, _)
InsertAll(page, cells) ==
    IF cells = <<>> THEN [ok |-> TRUE, page |-> page]
    ELSE Let(insert_cell(page, Head(cells).data, None), LAMBDA r :
             IF ~r.ok THEN [ok |-> FALSE, page |-> r.page]
             ELSE InsertAll(r.page, Tail(cells)))

\* the page with its slot directory cleared, as both split functions do
ClearedPage(page) ==
    [page EXCEPT !.slots = <<>>, !.free_space_offset = PAGE_SIZE, !.cell_count = 0]

NoSplit == [has |-> FALSE, left_page |-> Page_new(0, "LeafTable"),
            right_page |-> Page_new(0, "LeafTable"), separator_key |-> VNull]

\* the gathering loop of split_leaf_page: [panic, cells]; a cell that does
\* not decode as a row is skipped, one that decodes to a row without values
\* makes row.values[0] panic
RECURSIVE GatherLeafCells(_, _)
GatherLeafCells(page, i) ==
    IF i >= Len(page.slots) THEN [panic |-> FALSE, cells |-> <<>>]
    ELSE Let(get_cell(page, i), LAMBDA c :
         Let(GatherLeafCells(page, i + 1), LAMBDA rest :
             IF ~c.some \/ c.bytes = <<>> THEN rest
             ELSE Let(Row_from_bytes(c.bytes), LAMBDA r :
                      IF ~r.ok THEN rest
                      ELSE IF r.row.values = <<>> THEN [panic |-> TRUE, cells |-> <<>>]
                      ELSE [panic |-> rest.panic,
                            cells |-> <<[key |-> r.row.values[1], data |-> c.bytes]>>
                                      \o rest.cells])))

\* a mutant of split_leaf_page that points the new right leaf back at the
\* left one
split_leaf_page_cyclic(t, full_page, key, cell) ==
    Let(t.next_page_id, LAMBDA new_page_id :
    Let(allocate_page(t, "LeafTable"), LAMBDA t1 :
    Let(GatherLeafCells(full_page, 0), LAMBDA g :
        IF g.panic THEN [ok |-> FALSE, err |-> "Panic", t |-> t1, split |-> NoSplit]
        ELSE
    Let(SortByKey(Append(g.cells, [key |-> key, data |-> cell])), LAMBDA all_cells :
    Let(Len(all_cells) \div 2, LAMBDA split_point :
    Let(InsertAll(ClearedPage(full_page), SubSeq(all_cells, 1, split_point)), LAMBDA l :
    Let(InsertAll(Page_new(new_page_id, "LeafTable"),
                  SubSeq(all_cells, split_point + 1, Len(all_cells))), LAMBDA r :
        IF ~l.ok \/ ~r.ok
        THEN [ok |-> FALSE, err |-> "CorruptedDatabase", t |-> t1, split |-> NoSplit]
        ELSE [ok |-> TRUE, err |-> "", t |-> t1,
              split |-> [has |-> TRUE,
                         left_page |-> [l.page EXCEPT !.next_leaf_page_id = new_page_id],
                         right_page |-> [r.page EXCEPT !.next_leaf_page_id = full_page.page_id],
                         separator_key |-> all_cells[split_point + 1].key]])))))))

\* BPlusTree::split_leaf_page: [ok, err, t, split]
split_leaf_page(t, full_page, key, cell) ==
    Let(t.next_page_id, LAMBDA new_page_id :
    Let(allocate_page(t, "LeafTable"), LAMBDA t1 :
    Let(GatherLeafCells(full_page, 0), LAMBDA g :
        IF g.panic THEN [ok |-> FALSE, err |-> "Panic", t |-> t1, split |-> NoSplit]
        ELSE
    Let(SortByKey(Append(g.cells, [key |-> key, data |-> cell])), LAMBDA all_cells :
    Let(Len(all_cells) \div 2, LAMBDA split_point :
    Let(InsertAll(ClearedPage(full_page), SubSeq(all_cells, 1, split_point)), LAMBDA l :
    Let(InsertAll(Page_new(new_page_id, "LeafTable"),
                  SubSeq(all_cells, split_point + 1, Len(all_cells))), LAMBDA r :
        IF ~l.ok \/ ~r.ok
        THEN [ok |-> FALSE, err |-> "CorruptedDatabase", t |-> t1, split |-> NoSplit]
        ELSE [ok |-> TRUE, err |-> "", t |-> t1,
              split |-> [has |-> TRUE,
                         left_page |-> [l.page EXCEPT !.next_leaf_page_id = new_page_id],
                         right_page |-> [r.page EXCEPT !.next_leaf_page_id = full_page.next_leaf_page_id],
                         separator_key |-> all_cells[split_point + 1].key]])))))))

\* the gathering loop of split_interior_page: [ok, cells]
RECURSIVE GatherInteriorEntries(_, _)
GatherInteriorEntries(page, i) ==
    IF i >= Len(page.slots) THEN [ok |-> TRUE, cells |-> <<>>]
    ELSE Let(get_cell(page, i), LAMBDA c :
         Let(GatherInteriorEntries(page, i + 1), LAMBDA rest :
             IF ~c.some THEN rest
             ELSE Let(extract_key_from_interior_entry(c.bytes), LAMBDA e :
                      IF ~e.ok THEN [ok |-> FALSE, cells |-> <<>>]
                      ELSE [ok |-> rest.ok,
                            cells |-> <<[key |-> e.key, data |-> c.bytes]>> \o rest.cells])))

\* a mutant of split_interior_page that keeps the separator's entry as the
\* first entry of the right page
split_interior_page_keeps_entry(t, full_page, new_entry_data) ==
    Let(t.next_page_id, LAMBDA new_page_id :
    Let(allocate_page(t, "InteriorTable"), LAMBDA t1 :
    Let(GatherInteriorEntries(full_page, 0), LAMBDA g :
    Let(extract_key_from_interior_entry(new_entry_data), LAMBDA nk :
        IF ~g.ok \/ ~nk.ok
        THEN [ok |-> FALSE, err |-> "CorruptedPage", t |-> t1, split |-> NoSplit]
        ELSE
    Let(SortByKey(Append(g.cells, [key |-> nk.key, data |-> new_entry_data])), LAMBDA all_entries :
    Let(Len(all_entries) \div 2, LAMBDA split_point :
    Let(InsertAll(ClearedPage(full_page), SubSeq(all_entries, 1, split_point)), LAMBDA l :
    Let(InsertAll(Page_new(new_page_id, "InteriorTable"),
                  SubSeq(all_entries, split_point + 1, Len(all_entries))), LAMBDA r :
        IF ~l.ok \/ ~r.ok
        THEN [ok |-> FALSE, err |-> "PageFull", t |-> t1, split |-> NoSplit]
        ELSE [ok |-> TRUE, err |-> "", t |-> t1,
              split |-> [has |-> TRUE, left_page |-> l.page, right_page |-> r.page,
                         separator_key |-> all_entries[split_point + 1].key]]))))))))

\* BPlusTree::split_interior_page: [ok, err, t, split]
split_interior_page(t, full_page, new_entry_data) ==
    Let(t.next_page_id, LAMBDA new_page_id :
    Let(allocate_page(t, "InteriorTable"), LAMBDA t1 :
    Let(GatherInteriorEntries(full_page, 0), LAMBDA g :
    Let(extract_key_from_interior_entry(new_entry_data), LAMBDA nk :
        IF ~g.ok \/ ~nk.ok
        THEN [ok |-> FALSE, err |-> "CorruptedPage", t |-> t1, split |-> NoSplit]
        ELSE
    Let(SortByKey(Append(g.cells, [key |-> nk.key, data |-> new_entry_data])), LAMBDA all_entries :
    Let(Len(all_entries) \div 2, LAMBDA split_point :
    Let(InsertAll(ClearedPage(full_page), SubSeq(all_entries, 1, split_point)), LAMBDA l :
    Let(InsertAll(Page_new(new_page_id, "InteriorTable"),
                  SubSeq(all_entries, split_point + 2, Len(all_entries))), LAMBDA r :
        IF ~l.ok \/ ~r.ok
        THEN [ok |-> FALSE, err |-> "PageFull", t |-> t1, split |-> NoSplit]
        ELSE [ok |-> TRUE, err |-> "", t |-> t1,
              split |-> [has |-> TRUE, left_page |-> l.page, right_page |-> r.page,
                         separator_key |-> all_entries[split_point + 1].key]]))))))))

\* BPlusTree::allocate_overflow_page: [ok, err, t, id]
allocate_overflow_page(t, data) ==
    Let(t.next_page_id, LAMBDA overflow_page_id :
    Let(allocate_page(t, "OverflowPage"), LAMBDA t1 :
    Let(Page_new(overflow_page_id, "OverflowPage"), LAMBDA overflow_page :
        IF BLen(data) <= available_space(overflow_page)
        THEN Let(insert_cell(overflow_page, data, None), LAMBDA r :
                 IF ~r.ok THEN [ok |-> FALSE, err |-> r.err, t |-> t1, id |-> 0]
                 ELSE [ok |-> TRUE, err |-> "", t |-> write_page(t1, overflow_page_id, r.page),
                       id |-> overflow_page_id])
        ELSE [ok |-> FALSE, err |-> "CorruptedDatabase", t |-> t1, id |-> 0])))

\* a mutant of insert_with_reduced_writes that leaves the cache as it was
insert_with_reduced_writes_uncached(t, page_id, page, cell_data) ==
    Let(insert_cell(page, cell_data, None), LAMBDA r :
        IF ~r.ok THEN TErr(t, r.err)
        ELSE TOk(write_page(t, page_id, r.page)))

\* BPlusTree::insert_with_reduced_writes: [ok, err, t]
insert_with_reduced_writes(t, page_id, page, cell_data) ==
    Let(insert_cell(page, cell_data, None), LAMBDA r :
        IF ~r.ok THEN TErr(t, r.err)
        ELSE Let(write_page(t, page_id, r.page), LAMBDA t1 :
                 TOk([t1 EXCEPT !.page_cache = CachePut(t1.page_cache, page_id, r.page)])))

\* the leaf branch of insert_recursive when the cell fits: [ok, err, t]
InsertIntoLeaf(t, page_id, page, data) ==
    IF needs_overflow(BLen(data))
    THEN Let(allocate_overflow_page(t, data), LAMBDA o :
             IF ~o.ok THEN TErr(o.t, o.err)
             ELSE Let(insert_cell_with_overflow(page, data, None, o.id), LAMBDA r :
                      IF ~r.ok THEN TErr(o.t, r.err)
                      ELSE Let(write_page(o.t, page_id, r.page), LAMBDA t1 :
                               TOk([t1 EXCEPT !.page_cache =
                                        CachePut(t1.page_cache, page_id, r.page)]))))
    ELSE insert_with_reduced_writes(t, page_id, page, data)

\* the interior branch of insert_recursive after the child returned a split:
\* [ok, err, t, split]
AbsorbSplit(t, page_id, page, split) ==
    Let(create_interior_entry(split.separator_key, split.right_page.page_id),
        LAMBDA new_entry_data :
        IF ~can_fit(page, BLen(new_entry_data))
        THEN TracedSplit(split_interior_page(t, page, new_entry_data),
                         "interior_split", page, split.separator_key, new_entry_data)
        ELSE Let(insert_cell(page, new_entry_data, None), LAMBDA r :
                 IF ~r.ok THEN [ok |-> FALSE, err |-> r.err, t |-> t, split |-> NoSplit]
                 ELSE [ok |-> TRUE, err |-> "",
                       t |-> Traced(write_pages_batch(t, <<r.page, split.left_page,
                                                           split.right_page>>),
                                    [kind |-> "absorb", page |-> r.page, split |-> split]),
                       split |-> NoSplit]))

\* BPlusTree::insert_recursive: [ok, err, t, split]
RECURSIVE insert_recursive(_, _, _, _)
insert_recursive(t, page_id, key, data) ==
    Let(load_page(t, page_id), LAMBDA ld :
    Let(ld.page, LAMBDA page :
        IF ~ld.ok THEN [ok |-> FALSE, err |-> ld.err, t |-> ld.t, split |-> NoSplit]
        ELSE IF page.page_type = "LeafTable"
        THEN IF can_fit(page, BLen(data))
             THEN Let(InsertIntoLeaf(ld.t, page_id, page, data), LAMBDA r :
                      [ok |-> r.ok, err |-> r.err, split |-> NoSplit,
                       t |-> IF r.ok
                             THEN Traced(r.t, [kind |-> "leaf_insert",
                                               page |-> r.t.page_cache[page_id]])
                             ELSE r.t])
             ELSE TracedSplit(split_leaf_page(ld.t, page, key, data),
                              "leaf_split", page, key, data)
        ELSE IF page.page_type = "InteriorTable"
        THEN Let(find_child_page(page, key), LAMBDA c :
                 IF ~c.ok THEN [ok |-> FALSE, err |-> c.err, t |-> ld.t, split |-> NoSplit]
                 ELSE Let(insert_recursive(Traced(ld.t, [kind |-> "descend", page |-> page,
                                                         key |-> key, child |-> c.child]),
                                           c.child, key, data), LAMBDA sub :
                          IF ~sub.ok THEN sub
                          ELSE IF sub.split.has
                          THEN AbsorbSplit(sub.t, page_id, page, sub.split)
                          ELSE sub))
        ELSE [ok |-> FALSE, err |-> "CorruptedDatabase", t |-> ld.t, split |-> NoSplit]))

\* a mutant of the new-root step that puts the right page's entry first
NewRoot_right_first(t, split) ==
    Let(t.next_page_id, LAMBDA new_root_id :
    Let(allocate_page(t, "InteriorTable"), LAMBDA t1 :
    Let(insert_cell(Page_new(new_root_id, "InteriorTable"),
                    create_interior_entry(VNull, split.right_page.page_id), None),
        LAMBDA e1 :
        IF ~e1.ok THEN [ok |-> FALSE, err |-> "PageFull", t |-> t1, new_root |-> None]
        ELSE
    Let(insert_cell(e1.page, create_interior_entry(split.separator_key, split.left_page.page_id),
                    None),
        LAMBDA e2 :
        IF ~e2.ok THEN [ok |-> FALSE, err |-> "PageFull", t |-> t1, new_root |-> None]
        ELSE
    Let(write_pages_batch(t1, <<e2.page, split.left_page, split.right_page>>), LAMBDA t2 :
        [ok |-> TRUE, err |-> "",
         t |-> Traced([t2 EXCEPT !.root_page_id = new_root_id],
                      [kind |-> "new_root", page |-> e2.page, split |-> split]),
         new_root |-> new_root_id])))))

\* the new-root step of BPlusTree::insert: [ok, err, t, new_root]
NewRoot(t, split) ==
    Let(t.next_page_id, LAMBDA new_root_id :
    Let(allocate_page(t, "InteriorTable"), LAMBDA t1 :
    Let(insert_cell(Page_new(new_root_id, "InteriorTable"),
                    create_interior_entry(split.separator_key, split.left_page.page_id), None),
        LAMBDA e1 :
        IF ~e1.ok THEN [ok |-> FALSE, err |-> "PageFull", t |-> t1, new_root |-> None]
        ELSE
    Let(insert_cell(e1.page, create_interior_entry(VNull, split.right_page.page_id), None),
        LAMBDA e2 :
        IF ~e2.ok THEN [ok |-> FALSE, err |-> "PageFull", t |-> t1, new_root |-> None]
        ELSE
    Let(write_pages_batch(t1, <<e2.page, split.left_page, split.right_page>>), LAMBDA t2 :
        [ok |-> TRUE, err |-> "",
         t |-> Traced([t2 EXCEPT !.root_page_id = new_root_id],
                      [kind |-> "new_root", page |-> e2.page, split |-> split]),
         new_root |-> new_root_id])))))

\* BPlusTree::insert: [ok, err, t, new_root]; new_root = None for Ok(None)
BPlusTree_insert(t, row) ==
    IF row.values = <<>> THEN [ok |-> FALSE, err |-> "Panic", t |-> t, new_root |-> None]
    ELSE Let(insert_recursive(t, t.root_page_id, row.values[1], Row_to_bytes(row)), LAMBDA r :
             IF ~r.ok THEN [ok |-> FALSE, err |-> r.err, t |-> r.t, new_root |-> None]
             ELSE IF r.split.has THEN NewRoot(r.t, r.split)
             ELSE [ok |-> TRUE, err |-> "", t |-> r.t, new_root |-> None])

\* ----------------------------------------------------- sequential scanner
\* SequentialScanner::read_row_from_slot on the file: [ok, row]
read_row_from_slot(pages, page_id, slot) ==
    IF is_deleted(slot) THEN RowErr
    ELSE Row_from_bytes(BSlice(pages[page_id].data, slot.offset, slot.offset + slot.length))

\* SequentialScanner::load_page_metadata: [ok, err, page]
load_page_metadata(pages, page_id) ==
    IF page_id < 1 \/ page_id > Len(pages) THEN PErr(Page_new(0, "LeafTable"), "Io")
    ELSE from_header_bytes(pages[page_id])

\* SequentialScanner::find_first_leaf: [ok, leaf]; fuel bounds the descent
\* (a descent longer than the number of pages revisits a page and never ends)
RECURSIVE FindFirstLeaf(_, _, _)
FindFirstLeaf(pages, page_id, fuel) ==
    LET m == load_page_metadata(pages, page_id)
    IN  IF fuel = 0 THEN [ok |-> FALSE, loops |-> TRUE, leaf |-> 0]
        ELSE IF ~m.ok THEN [ok |-> FALSE, loops |-> FALSE, leaf |-> 0]
        ELSE IF m.page.page_type = "LeafTable" THEN [ok |-> TRUE, loops |-> FALSE, leaf |-> page_id]
        ELSE IF m.page.page_type = "InteriorTable"
        THEN IF m.page.slots = <<>> THEN [ok |-> FALSE, loops |-> FALSE, leaf |-> 0]
             ELSE FindFirstLeaf(pages,
                      FromLE(BDrop(pages[page_id].data, m.page.slots[1].offset), 8), fuel - 1)
        ELSE [ok |-> FALSE, loops |-> FALSE, leaf |-> 0]

find_first_leaf(pages, root_page_id) == FindFirstLeaf(pages, root_page_id, Len(pages) + 1)

\* A SequentialScanner is [root_page_id, current_page_id, current_slot_index,
\* read_ahead_pages, is_exhausted]; read_ahead_pages holds the page ids of
\* the prefetched metadata pages (their contents are never consulted).
SequentialScanner_new(root_page_id) ==
    [root_page_id |-> root_page_id, current_page_id |-> None, current_slot_index |-> 0,
     read_ahead_pages |-> <<>>, is_exhausted |-> FALSE]

\* SequentialScanner::prefetch_next_page (errors are suppressed by the caller)
prefetch_next_page(sc, pages, current_page) ==
    IF /\ current_page.next_leaf_page_id # None
       /\ Len(sc.read_ahead_pages) < 2
       /\ load_page_metadata(pages, current_page.next_leaf_page_id).ok
    THEN [sc EXCEPT !.read_ahead_pages = Append(@, current_page.next_leaf_page_id)]
    ELSE sc

\* SequentialScanner::get_next_page: [ok, sc, next]; next = None for Ok(None)
get_next_page(sc, pages) ==
    LET sc1 == IF sc.read_ahead_pages # <<>>
               THEN [sc EXCEPT !.read_ahead_pages = Tail(@)] ELSE sc
        cur == load_page_metadata(pages, sc.current_page_id)
    IN  IF sc.current_page_id = None THEN [ok |-> TRUE, sc |-> sc1, next |-> None]
        ELSE IF ~cur.ok THEN [ok |-> FALSE, sc |-> sc1, next |-> None]
        ELSE IF cur.page.next_leaf_page_id = None THEN [ok |-> TRUE, sc |-> sc1, next |-> None]
        ELSE IF sc.read_ahead_pages # <<>>
        THEN [ok |-> TRUE, sc |-> sc1, next |-> cur.page.next_leaf_page_id]
        ELSE IF ~load_page_metadata(pages, cur.page.next_leaf_page_id).ok
        THEN [ok |-> FALSE, sc |-> sc1, next |-> None]
        ELSE [ok |-> TRUE, sc |-> sc1, next |-> cur.page.next_leaf_page_id]

\* a mutant of the loop of scan that steps over a slot whose row does not
\* decode
RECURSIVE ScanLoop_skipping(_, _, _)
ScanLoop_skipping(sc, pages, fuel) ==
    IF fuel = 0 THEN [kind |-> "loops", sc |-> sc, row |-> Row_new(<<>>)]
    ELSE IF sc.current_page_id = None
    THEN [kind |-> "none", sc |-> [sc EXCEPT !.is_exhausted = TRUE], row |-> Row_new(<<>>)]
    ELSE LET m == load_page_metadata(pages, sc.current_page_id)
             page == m.page
         IN  IF ~m.ok THEN [kind |-> "err", sc |-> sc, row |-> Row_new(<<>>)]
             ELSE IF sc.current_slot_index < Len(page.slots)
             THEN LET slot == page.slots[sc.current_slot_index + 1]
                      r == read_row_from_slot(pages, sc.current_page_id, slot)
                      sc1 == [sc EXCEPT !.current_slot_index = @ + 1]
                      near == IF Len(page.slots) >= 2 THEN Len(page.slots) - 2 ELSE 0
                  IN  IF is_deleted(slot) \/ ~r.ok THEN ScanLoop_skipping(sc1, pages, fuel - 1)
                      ELSE [kind |-> "row",
                            sc |-> IF sc1.current_slot_index >= near
                                   THEN prefetch_next_page(sc1, pages, page) ELSE sc1,
                            row |-> r.row]
             ELSE LET g == get_next_page(sc, pages)
                  IN  IF ~g.ok THEN [kind |-> "err", sc |-> g.sc, row |-> Row_new(<<>>)]
                      ELSE IF g.next # None
                      THEN ScanLoop_skipping([g.sc EXCEPT !.current_page_id = g.next,
                                                          !.current_slot_index = 0],
                                             pages, fuel - 1)
                      ELSE [kind |-> "none", sc |-> [g.sc EXCEPT !.is_exhausted = TRUE],
                            row |-> Row_new(<<>>)]

\* the loop of SequentialScanner::scan: [kind, sc, row] with kind one of
\* "row", "none", "err", and "loops" when the loop does not end within fuel
\* iterations
RECURSIVE ScanLoop(_, _, _)
ScanLoop(sc, pages, fuel) ==
    IF fuel = 0 THEN [kind |-> "loops", sc |-> sc, row |-> Row_new(<<>>)]
    ELSE IF sc.current_page_id = None
    THEN [kind |-> "none", sc |-> [sc EXCEPT !.is_exhausted = TRUE], row |-> Row_new(<<>>)]
    ELSE LET m == load_page_metadata(pages, sc.current_page_id)
             page == m.page
         IN  IF ~m.ok THEN [kind |-> "err", sc |-> sc, row |-> Row_new(<<>>)]
             ELSE IF sc.current_slot_index < Len(page.slots)
             THEN LET slot == page.slots[sc.current_slot_index + 1]
                      r == read_row_from_slot(pages, sc.current_page_id, slot)
                      sc1 == [sc EXCEPT !.current_slot_index = @ + 1]
                      near == IF Len(page.slots) >= 2 THEN Len(page.slots) - 2 ELSE 0
                  IN  IF is_deleted(slot) THEN ScanLoop(sc1, pages, fuel - 1)
                      ELSE IF ~r.ok THEN [kind |-> "err", sc |-> sc, row |-> Row_new(<<>>)]
                      ELSE [kind |-> "row",
                            sc |-> IF sc1.current_slot_index >= near
                                   THEN prefetch_next_page(sc1, pages, page) ELSE sc1,
                            row |-> r.row]
             ELSE LET g == get_next_page(sc, pages)
                  IN  IF ~g.ok THEN [kind |-> "err", sc |-> g.sc, row |-> Row_new(<<>>)]
                      ELSE IF g.next # None
                      THEN ScanLoop([g.sc EXCEPT !.current_page_id = g.next,
                                                 !.current_slot_index = 0], pages, fuel - 1)
                      ELSE [kind |-> "none", sc |-> [g.sc EXCEPT !.is_exhausted = TRUE],
                            row |-> Row_new(<<>>)]

\* the number of slot directory entries on all pages of the file
RECURSIVE TotalSlots(_)
TotalSlots(pages) == IF pages = <<>> THEN 0 ELSE Head(pages).cell_count + TotalSlots(Tail(pages))

\* more loop iterations than one acyclic scan can take
ScanFuel(pages) == TotalSlots(pages) + 2 * Len(pages) + 2

\* a mutant of scan that never marks the scanner exhausted
scan_unmarked(sc, pages) ==
    IF sc.current_page_id = None
    THEN LET f == find_first_leaf(pages, sc.root_page_id)
         IN  IF f.loops THEN [kind |-> "loops", sc |-> sc, row |-> Row_new(<<>>)]
             ELSE IF ~f.ok THEN [kind |-> "err", sc |-> sc, row |-> Row_new(<<>>)]
             ELSE Let(ScanLoop([sc EXCEPT !.current_page_id = f.leaf, !.current_slot_index = 0],
                               pages, ScanFuel(pages)),
                      LAMBDA r : [r EXCEPT !.sc.is_exhausted = FALSE])
    ELSE Let(ScanLoop(sc, pages, ScanFuel(pages)),
             LAMBDA r : [r EXCEPT !.sc.is_exhausted = FALSE])

\* SequentialScanner::scan: [kind, sc, row]
scan(sc, pages) ==
    IF sc.is_exhausted THEN [kind |-> "none", sc |-> sc, row |-> Row_new(<<>>)]
    ELSE IF sc.current_page_id = None
    THEN LET f == find_first_leaf(pages, sc.root_page_id)
         IN  IF f.loops THEN [kind |-> "loops", sc |-> sc, row |-> Row_new(<<>>)]
             ELSE IF ~f.ok THEN [kind |-> "err", sc |-> sc, row |-> Row_new(<<>>)]
             ELSE ScanLoop([sc EXCEPT !.current_page_id = f.leaf, !.current_slot_index = 0],
                           pages, ScanFuel(pages))
    ELSE ScanLoop(sc, pages, ScanFuel(pages))

\* scan() repeated until None, as StorageManager::scan_table does without a
\* predicate: [kind, rows] with kind "ok", "err" or "loops"
RECURSIVE ScanRest(_, _, _, _)
ScanRest(sc, pages, rows, fuel) ==
    LET r == scan(sc, pages)
    IN  IF fuel = 0 THEN [kind |-> "loops", rows |-> rows]
        ELSE IF r.kind = "row" THEN ScanRest(r.sc, pages, Append(rows, r.row), fuel - 1)
        ELSE IF r.kind = "none" THEN [kind |-> "ok", rows |-> rows]
        ELSE [kind |-> r.kind, rows |-> rows]

ScanAll(pages, root_page_id) ==
    ScanRest(SequentialScanner_new(root_page_id), pages, <<>>, ScanFuel(pages))

\* a mutant of the loop of scan_batch that gives up one row early
RECURSIVE ScanBatchLoop_short(_, _, _, _)
ScanBatchLoop_short(sc, pages, rows, n) ==
    IF n <= 1 THEN [kind |-> "ok", sc |-> sc, rows |-> rows]
    ELSE Let(scan(sc, pages), LAMBDA r :
             IF r.kind = "row" THEN ScanBatchLoop_short(r.sc, pages, Append(rows, r.row), n - 1)
             ELSE IF r.kind = "none" THEN [kind |-> "ok", sc |-> r.sc, rows |-> rows]
             ELSE [kind |-> r.kind, sc |-> r.sc, rows |-> <<>>])

\* the loop of SequentialScanner::scan_batch: n more calls of scan(); an
\* error of scan() is the result of the batch and its rows are dropped
RECURSIVE ScanBatchLoop(_, _, _, _)
ScanBatchLoop(sc, pages, rows, n) ==
    IF n = 0 THEN [kind |-> "ok", sc |-> sc, rows |-> rows]
    ELSE Let(scan(sc, pages), LAMBDA r :
             IF r.kind = "row" THEN ScanBatchLoop(r.sc, pages, Append(rows, r.row), n - 1)
             ELSE IF r.kind = "none" THEN [kind |-> "ok", sc |-> r.sc, rows |-> rows]
             ELSE [kind |-> r.kind, sc |-> r.sc, rows |-> <<>>])

\* SequentialScanner::scan_batch: [kind, sc, rows]
scan_batch(sc, pages, batch_size) == ScanBatchLoop(sc, pages, <<>>, batch_size)

\* a mutant of reset that leaves the exhausted flag as it is
reset_keeps_exhausted(sc) ==
    [sc EXCEPT !.current_page_id = None,
               !.current_slot_index = 0,
               !.read_ahead_pages = <<>>]

\* SequentialScanner::reset
reset(sc) ==
    [sc EXCEPT !.current_page_id = None,
               !.current_slot_index = 0,
               !.read_ahead_pages = <<>>,
               !.is_exhausted = FALSE]

\* ------------------------------------------------------------ text forms
\* The strings the engine writes into and compares against catalog rows, as
\* byte strings.
\* "table"
STR_table == Raw(<<116, 97, 98, 108, 101>>)
\* "column"
STR_column == Raw(<<99, 111, 108, 117, 109, 110>>)
\* "sqlite_schema"
STR_sqlite_schema == Raw(<<115, 113, 108, 105, 116, 101, 95, 115, 99, 104, 101, 109, 97>>)
\* "NULL"
STR_NULL == Raw(<<78, 85, 76, 76>>)
\* "INTEGER"
STR_INTEGER == Raw(<<73, 78, 84, 69, 71, 69, 82>>)
\* "INT"
STR_INT == Raw(<<73, 78, 84>>)
\* "REAL"
STR_REAL == Raw(<<82, 69, 65, 76>>)
\* "FLOAT"
STR_FLOAT == Raw(<<70, 76, 79, 65, 84>>)
\* "DOUBLE"
STR_DOUBLE == Raw(<<68, 79, 85, 66, 76, 69>>)
\* "TEXT"
STR_TEXT == Raw(<<84, 69, 88, 84>>)
\* "STRING"
STR_STRING == Raw(<<83, 84, 82, 73, 78, 71>>)
\* "VARCHAR"
STR_VARCHAR == Raw(<<86, 65, 82, 67, 72, 65, 82>>)
\* "BLOB"
STR_BLOB == Raw(<<66, 76, 79, 66>>)
\* "BINARY"
STR_BINARY == Raw(<<66, 73, 78, 65, 82, 89>>)
\* "BOOLEAN"
STR_BOOLEAN == Raw(<<66, 79, 79, 76, 69, 65, 78>>)
\* "BOOL"
STR_BOOL == Raw(<<66, 79, 79, 76>>)
\* "TIMESTAMP"
STR_TIMESTAMP == Raw(<<84, 73, 77, 69, 83, 84, 65, 77, 80>>)
\* "DATETIME"
STR_DATETIME == Raw(<<68, 65, 84, 69, 84, 73, 77, 69>>)
\* "TRUE"
STR_TRUE == Raw(<<84, 82, 85, 69>>)
\* "FALSE"
STR_FALSE == Raw(<<70, 65, 76, 83, 69>>)
\* "BLOB("
STR_BLOB_open == Raw(<<66, 76, 79, 66, 40>>)
\* " bytes)"
STR_bytes_close == Raw(<<32, 98, 121, 116, 101, 115, 41>>)
\* "CREATE TABLE sqlite_schema(type text,name text,tbl_name text,rootpage integer,sql text)"
STR_schema_sql == Raw(<<67, 82, 69, 65, 84, 69, 32, 84, 65, 66, 76, 69, 32, 115, 113, 108, 105, 116, 101, 95, 115, 99, 104, 101, 109, 97, 40, 116, 121, 112, 101, 32, 116, 101, 120, 116, 44, 110, 97, 109, 101, 32, 116, 101, 120, 116, 44, 116, 98, 108, 95, 110, 97, 109, 101, 32, 116, 101, 120, 116, 44, 114, 111, 111, 116, 112, 97, 103, 101, 32, 105, 110, 116, 101, 103, 101, 114, 44, 115, 113, 108, 32, 116, 101, 120, 116, 41>>)

\* a byte string as a plain sequence of bytes
RECURSIVE BFlat(_)
BFlat(bs) ==
    IF bs = <<>> THEN <<>>
    ELSE [i \in 1..Head(bs)[2] |-> Head(bs)[1]] \o BFlat(Tail(bs))

\* str::to_uppercase and str::to_lowercase on ASCII text
to_uppercase(bs) == BNorm([i \in 1..Len(bs) |->
    <<IF bs[i][1] >= 97 /\ bs[i][1] <= 122 THEN bs[i][1] - 32 ELSE bs[i][1], bs[i][2]>>])

to_lowercase(bs) == BNorm([i \in 1..Len(bs) |->
    <<IF bs[i][1] >= 65 /\ bs[i][1] <= 90 THEN bs[i][1] + 32 ELSE bs[i][1], bs[i][2]>>])

\* Display for DataType
DataType_to_string(dt) ==
    CASE dt = "Null" -> STR_NULL
      [] dt = "Integer" -> STR_INTEGER
      [] dt = "Real" -> STR_REAL
      [] dt = "Text" -> STR_TEXT
      [] dt = "Blob" -> STR_BLOB
      [] dt = "Boolean" -> STR_BOOLEAN
      [] dt = "Timestamp" -> STR_TIMESTAMP

\* DataType::from_string: [ok, dt]
DataType_from_string(s) ==
    Let(to_uppercase(s), LAMBDA u :
        IF u = STR_NULL THEN [ok |-> TRUE, dt |-> "Null"]
        ELSE IF u \in {STR_INTEGER, STR_INT} THEN [ok |-> TRUE, dt |-> "Integer"]
        ELSE IF u \in {STR_REAL, STR_FLOAT, STR_DOUBLE} THEN [ok |-> TRUE, dt |-> "Real"]
        ELSE IF u \in {STR_TEXT, STR_STRING, STR_VARCHAR} THEN [ok |-> TRUE, dt |-> "Text"]
        ELSE IF u \in {STR_BLOB, STR_BINARY} THEN [ok |-> TRUE, dt |-> "Blob"]
        ELSE IF u \in {STR_BOOLEAN, STR_BOOL} THEN [ok |-> TRUE, dt |-> "Boolean"]
        ELSE IF u \in {STR_TIMESTAMP, STR_DATETIME} THEN [ok |-> TRUE, dt |-> "Timestamp"]
        ELSE [ok |-> FALSE, dt |-> "Null"])

\* the decimal digits of a natural number
RECURSIVE Digits(_)
Digits(n) == IF n < 10 THEN <<48 + n>> ELSE Append(Digits(n \div 10), 48 + (n % 10))

\* the text of an integer as "{}" prints it
DecimalBytes(n) == IF n < 0 THEN Raw(<<45>> \o Digits(0 - n)) ELSE Raw(Digits(n))

\* the value of a sequence of decimal digits, -1 when one is not a digit
RECURSIVE DigitsValue(_, _)
DigitsValue(ds, acc) ==
    IF ds = <<>> THEN acc
    ELSE IF Head(ds) < 48 \/ Head(ds) > 57 \/ acc >= HugeInt THEN -1
    ELSE DigitsValue(Tail(ds), acc * 10 + (Head(ds) - 48))

\* str::parse::<i64>: [ok, n]
ParseI64(s) ==
    Let(BFlat(s), LAMBDA f :
    Let(f # <<>> /\ Head(f) \in {43, 45}, LAMBDA signed :
    Let(IF signed THEN Tail(f) ELSE f, LAMBDA ds :
    Let(DigitsValue(ds, 0), LAMBDA v :
        IF ds = <<>> \/ v < 0 THEN [ok |-> FALSE, n |-> 0]
        ELSE [ok |-> TRUE, n |-> IF signed /\ Head(f) = 45 THEN 0 - v ELSE v]))))

\* Display for Value
Value_to_string(v) ==
    CASE v.t = "Null" -> STR_NULL
      [] v.t = "Integer" -> DecimalBytes(v.i)
      [] v.t = "Text" -> v.s
      [] v.t = "Blob" -> BCat(BCat(STR_BLOB_open, DecimalBytes(BLen(v.s))), STR_bytes_close)
      [] v.t = "Boolean" -> IF v.i = 1 THEN STR_TRUE ELSE STR_FALSE

\* the value of one hexadecimal digit, -1 when it is none
HexVal(c) ==
    IF c >= 48 /\ c <= 57 THEN c - 48
    ELSE IF c >= 65 /\ c <= 70 THEN c - 55
    ELSE IF c >= 97 /\ c <= 102 THEN c - 87
    ELSE -1

\* u8::from_str_radix(.., 16) on each pair of characters: [ok, bytes]
RECURSIVE HexDecode(_, _)
HexDecode(cs, acc) ==
    IF cs = <<>> THEN [ok |-> TRUE, bytes |-> Raw(acc)]
    ELSE Let(HexVal(cs[1]), LAMBDA hi :
         Let(HexVal(cs[2]), LAMBDA lo :
             IF lo < 0 \/ (hi < 0 /\ cs[1] # 43) THEN [ok |-> FALSE, bytes |-> <<>>]
             ELSE HexDecode(SubSeq(cs, 3, Len(cs)),
                            Append(acc, IF hi < 0 THEN lo ELSE hi * 16 + lo))))

\* Value::from_string: [ok, v]
Value_from_string(s, data_type) ==
    Let(BFlat(s), LAMBDA f :
    Let(to_lowercase(s), LAMBDA l :
        IF s = STR_NULL THEN [ok |-> TRUE, v |-> VNull]
        ELSE CASE data_type = "Null" -> [ok |-> TRUE, v |-> VNull]
               [] data_type = "Integer" ->
                    Let(ParseI64(s), LAMBDA p : [ok |-> p.ok, v |-> VInt(p.n)])
               [] data_type = "Text" -> [ok |-> TRUE, v |-> VText(s)]
               [] data_type = "Blob" ->
                    IF Len(f) >= 2 /\ f[1] = 48 /\ f[2] \in {88, 120}
                    THEN IF (Len(f) - 2) % 2 # 0 THEN [ok |-> FALSE, v |-> VNull]
                         ELSE Let(HexDecode(SubSeq(f, 3, Len(f)), <<>>), LAMBDA h :
                                  [ok |-> h.ok, v |-> VBlob(h.bytes)])
                    ELSE [ok |-> TRUE, v |-> VBlob(s)]
               [] data_type = "Boolean" ->
                    IF l \in {Raw(<<116, 114, 117, 101>>), Raw(<<116>>), Raw(<<121, 101, 115>>),
                              Raw(<<121>>), Raw(<<49>>)}
                    THEN [ok |-> TRUE, v |-> VBool(TRUE)]
                    ELSE IF l \in {Raw(<<102, 97, 108, 115, 101>>), Raw(<<102>>), Raw(<<110, 111>>),
                                   Raw(<<110>>), Raw(<<48>>)}
                    THEN [ok |-> TRUE, v |-> VBool(FALSE)]
                    ELSE [ok |-> FALSE, v |-> VNull]
               [] OTHER -> [ok |-> FALSE, v |-> VNull]))

\* ----------------------------------------------------------------- schema
\* A ColumnSchema is [name, data_type, position, nullable, default_value,
\* primary_key, unique] with default_value = [some, v]; a TableSchema is
\* [table_name, columns, root_page_id, sql].
NoDefault == [some |-> FALSE, v |-> VNull]
SomeDefault(v) == [some |-> TRUE, v |-> v]

ColumnSchema(name, data_type, position, nullable, default_value, primary_key, unique) ==
    [name |-> name, data_type |-> data_type, position |-> position, nullable |-> nullable,
     default_value |-> default_value, primary_key |-> primary_key, unique |-> unique]

TableSchema_new(table_name, columns, root_page_id, sql) ==
    [table_name |-> table_name, columns |-> columns, root_page_id |-> root_page_id, sql |-> sql]

\* HashMap::insert
MapPut(m, k, v) == [q \in (DOMAIN m) \cup {k} |-> IF q = k THEN v ELSE m[q]]

\* ColumnSchema::to_schema_row
to_schema_row(col, table_name) ==
    Row_new(<<VText(STR_column), VText(col.name), VText(table_name), VInt(col.position),
              VText(DataType_to_string(col.data_type)),
              VInt(IF col.nullable THEN 1 ELSE 0),
              VText(IF col.default_value.some THEN Value_to_string(col.default_value.v)
                    ELSE STR_NULL),
              VInt(IF col.primary_key THEN 1 ELSE 0),
              VInt(IF col.unique THEN 1 ELSE 0)>>)

\* ColumnSchema::from_schema_row: [ok, col]
from_schema_row(row) ==
    Let(row.values, LAMBDA v :
    Let([ok |-> FALSE, col |-> ColumnSchema(<<>>, "Null", 0, TRUE, NoDefault, FALSE, FALSE)],
        LAMBDA bad :
        IF Len(v) < 9 THEN bad
        ELSE IF v[2].t # "Text" \/ v[4].t # "Integer" \/ v[5].t # "Text" THEN bad
        ELSE
    Let(DataType_from_string(v[5].s), LAMBDA dt :
        IF ~dt.ok \/ v[6].t # "Integer" THEN bad
        ELSE
    Let(v[7].t = "Text" /\ v[7].s # STR_NULL, LAMBDA has_default :
    Let(Value_from_string(v[7].s, dt.dt), LAMBDA d :
        IF has_default /\ ~d.ok THEN bad
        ELSE IF v[8].t # "Integer" \/ v[9].t # "Integer" THEN bad
        ELSE [ok |-> TRUE,
              col |-> ColumnSchema(v[2].s, dt.dt, v[4].i, v[6].i # 0,
                                   IF has_default THEN SomeDefault(d.v) ELSE NoDefault,
                                   v[8].i # 0, v[9].i # 0)])))))

\* columns.sort_by_key(|col| col.position), a stable sort
SortByPosition(columns) ==
    Let(SortByKey([i \in 1..Len(columns) |->
                      [key |-> VInt(columns[i].position), data |-> columns[i]]]),
        LAMBDA sorted : [i \in 1..Len(sorted) |-> sorted[i].data])

\* TableSchema::get_column_by_position: the first column at the position,
\* as [some, col]
get_column_by_position(schema, position) ==
    LET at == {i \in 1..Len(schema.columns) : schema.columns[i].position = position}
    IN  IF at = {} THEN [some |-> FALSE, col |-> schema.columns]
        ELSE [some |-> TRUE,
              col |-> schema.columns[CHOOSE i \in at : \A j \in at : i <= j]]

\* the value loop of TableSchema::validate_row from value i on (0-based)
RECURSIVE ValidateValues(_, _, _)
ValidateValues(schema, values, i) ==
    IF i >= Len(values) THEN ""
    ELSE Let(get_column_by_position(schema, i), LAMBDA column :
             IF column.some /\ ~column.col.nullable /\ values[i + 1].t = "Null"
             THEN "InvalidData"
             ELSE IF column.some /\ values[i + 1].t # "Null"
                     /\ ~is_compatible_with_type(values[i + 1], column.col.data_type)
             THEN "InvalidData"
             ELSE ValidateValues(schema, values, i + 1))

\* TableSchema::validate_row: "" for Ok, the kind of the error otherwise
validate_row(schema, row) ==
    IF Len(row.values) # Len(schema.columns) THEN "InvalidData"
    ELSE ValidateValues(schema, row.values, 0)

\* a mutant of validate_columns without the primary key count
validate_columns_any_keys(columns) ==
    LET n == Len(columns)
    IN  IF n = 0 THEN "InvalidData"
        ELSE IF \E i, j \in 1..n : i < j /\ columns[i].name = columns[j].name THEN "InvalidData"
        ELSE IF \E i, j \in 1..n : i < j /\ columns[i].position = columns[j].position
        THEN "InvalidData"
        ELSE IF {columns[i].position : i \in 1..n} # 0..(n - 1) THEN "InvalidData"
        ELSE ""

\* CreateTableExecutor::validate_columns: "" when the columns are accepted,
\* the kind of the error otherwise
validate_columns(columns) ==
    LET n == Len(columns)
    IN  IF n = 0 THEN "InvalidData"
        ELSE IF \E i, j \in 1..n : i < j /\ columns[i].name = columns[j].name THEN "InvalidData"
        ELSE IF \E i, j \in 1..n : i < j /\ columns[i].position = columns[j].position
        THEN "InvalidData"
        ELSE IF {columns[i].position : i \in 1..n} # 0..(n - 1) THEN "InvalidData"
        ELSE IF Cardinality({i \in 1..n : columns[i].primary_key}) > 1 THEN "InvalidData"
        ELSE ""

\* -------------------------------------------------------- storage manager
\* The database file is [database_size_pages (the field of the 100-byte
\* header), pages (the page buffers behind the header)].  A StorageManager
\* is [open, page_count, file_size, database_size_pages, table_roots,
\* table_schemas]; the last two are functions from table names.
ClosedManager ==
    [open |-> FALSE, page_count |-> 0, file_size |-> 0, database_size_pages |-> 0,
     table_roots |-> <<>>, table_schemas |-> <<>>]

\* the length of the file
FileSize(file) == BAMBANG_HEADER_SIZE + Len(file.pages) * PAGE_SIZE

\* StorageManager::init_schema_page
init_schema_page ==
    insert_cell(Page_new(1, "LeafTable"),
                Row_to_bytes(Row_new(<<VText(STR_table), VText(STR_sqlite_schema),
                                       VText(STR_sqlite_schema), VInt(1),
                                       VText(STR_schema_sql)>>)),
                None).page

\* StorageManager::create_new: the file it writes
create_new == [database_size_pages |-> 1, pages |-> <<to_bytes(init_schema_page)>>]

\* StorageManager::open_existing: [ok, page_count, file_size]
open_existing(file) ==
    LET page_count == (FileSize(file) - BAMBANG_HEADER_SIZE) \div PAGE_SIZE
    IN  [ok |-> page_count = file.database_size_pages,
         page_count |-> page_count, file_size |-> FileSize(file)]

\* the loop of load_table_roots_and_schemas over the slots of the schema
\* page: [ok, roots, schemas]; schemas maps a name to [root, sql, columns]
RECURSIVE LoadEntries(_, _, _, _)
LoadEntries(schema_page, i, roots, schemas) ==
    IF i >= Len(schema_page.slots) THEN [ok |-> TRUE, roots |-> roots, schemas |-> schemas]
    ELSE Let(get_cell(schema_page, i), LAMBDA c :
             IF ~c.some THEN LoadEntries(schema_page, i + 1, roots, schemas)
             ELSE
         Let(Row_from_bytes(c.bytes), LAMBDA r :
         Let(r.row.values, LAMBDA v :
             IF ~r.ok THEN [ok |-> FALSE, roots |-> roots, schemas |-> schemas]
             ELSE IF Len(v) < 5 \/ v[1].t # "Text"
             THEN LoadEntries(schema_page, i + 1, roots, schemas)
             ELSE IF v[1].s = STR_table
             THEN IF v[2].t = "Text" /\ v[4].t = "Integer" /\ v[5].t = "Text"
                  THEN LoadEntries(schema_page, i + 1, MapPut(roots, v[2].s, v[4].i),
                                   MapPut(schemas, v[2].s,
                                          [root |-> v[4].i, sql |-> v[5].s, columns |-> <<>>]))
                  ELSE LoadEntries(schema_page, i + 1, roots, schemas)
             ELSE IF v[1].s = STR_column /\ Len(v) >= 9 /\ v[3].t = "Text"
             THEN Let(from_schema_row(r.row), LAMBDA col :
                      IF ~col.ok THEN [ok |-> FALSE, roots |-> roots, schemas |-> schemas]
                      ELSE IF v[3].s \in DOMAIN schemas
                      THEN LoadEntries(schema_page, i + 1, roots,
                                       [schemas EXCEPT ![v[3].s].columns = Append(@, col.col)])
                      ELSE LoadEntries(schema_page, i + 1, roots, schemas))
             ELSE LoadEntries(schema_page, i + 1, roots, schemas))))

\* StorageManager::load_table_roots_and_schemas: [ok, err, table_roots,
\* table_schemas]
load_table_roots_and_schemas(file) ==
    Let(from_bytes(file.pages[1]), LAMBDA schema_page :
        IF ~schema_page.ok
        THEN [ok |-> FALSE, err |-> schema_page.err, table_roots |-> <<>>, table_schemas |-> <<>>]
        ELSE
    Let(LoadEntries(schema_page.page, 0, <<>>, <<>>), LAMBDA l :
        IF ~l.ok
        THEN [ok |-> FALSE, err |-> "SerializationError", table_roots |-> <<>>,
              table_schemas |-> <<>>]
        ELSE [ok |-> TRUE, err |-> "", table_roots |-> l.roots,
              table_schemas |-> [n \in DOMAIN l.schemas |->
                  TableSchema_new(n, SortByPosition(l.schemas[n].columns),
                                  l.schemas[n].root, l.schemas[n].sql)]]))

\* StorageManager::new on an existing file: [ok, err, sm]
StorageManager_new(file) ==
    Let(open_existing(file), LAMBDA o :
        IF ~o.ok THEN [ok |-> FALSE, err |-> "CorruptedDatabase", sm |-> ClosedManager]
        ELSE
    Let(load_table_roots_and_schemas(file), LAMBDA l :
        IF ~l.ok THEN [ok |-> FALSE, err |-> l.err, sm |-> ClosedManager]
        ELSE [ok |-> TRUE, err |-> "",
              sm |-> [open |-> TRUE, page_count |-> o.page_count, file_size |-> o.file_size,
                      database_size_pages |-> file.database_size_pages,
                      table_roots |-> l.table_roots, table_schemas |-> l.table_schemas]]))

\* the ids a tree handed out, as allocation records
TreeAllocs(t) == [i \in 1..Len(t.allocated) |-> [by |-> "tree", id |-> t.allocated[i]]]

\* the result of a storage manager operation: [ok, err, sm, file, ret,
\* allocs]; allocs lists the page allocations the operation made, in order
SMResult(ok, err, sm, file, ret, allocs) ==
    [ok |-> ok, err |-> err, sm |-> sm, file |-> file, ret |-> ret, allocs |-> allocs]

\* StorageManager::allocate_new_page together with write_page and
\* update_header_in_file
allocate_new_page(sm, file, page_type) ==
    Let(sm.page_count + 1, LAMBDA new_page_id :
        SMResult(TRUE, "",
                 [sm EXCEPT !.page_count = new_page_id,
                            !.file_size = @ + PAGE_SIZE,
                            !.database_size_pages = new_page_id],
                 [database_size_pages |-> new_page_id,
                  pages |-> FileWrite(file.pages, new_page_id,
                                      to_bytes(Page_new(new_page_id, page_type)))],
                 new_page_id, <<[by |-> "manager", id |-> new_page_id]>>))

\* an insert into the catalog through a fresh tree rooted at page 1, as
\* create_table and add_table_schema do: [ok, err, sm, file, ret, allocs]
CatalogInsert(sm, file, row) ==
    Let(BPlusTree_insert(BPlusTree_new_with_extras(file.pages, 1), row), LAMBDA ins :
    Let([file EXCEPT !.pages = ins.t.pages], LAMBDA file1 :
        IF ~ins.ok THEN SMResult(FALSE, ins.err, sm, file1, None, TreeAllocs(ins.t))
        ELSE SMResult(TRUE, "",
                      IF ins.new_root # None
                      THEN [sm EXCEPT !.table_roots = MapPut(@, STR_sqlite_schema, ins.new_root)]
                      ELSE sm,
                      file1, ins.new_root, TreeAllocs(ins.t))))

\* StorageManager::create_table
create_table(sm, file, table_name, sql) ==
    Let(allocate_new_page(sm, file, "LeafTable"), LAMBDA a :
    Let(CatalogInsert(a.sm, a.file,
                      Row_new(<<VText(STR_table), VText(table_name), VText(table_name),
                                VInt(a.ret), VText(sql)>>)), LAMBDA c :
        IF ~c.ok THEN SMResult(FALSE, c.err, c.sm, c.file, None, a.allocs \o c.allocs)
        ELSE SMResult(TRUE, "", [c.sm EXCEPT !.table_roots = MapPut(@, table_name, a.ret)],
                      c.file, a.ret, a.allocs \o c.allocs)))

\* the loop of add_table_schema over the columns
RECURSIVE AddColumns(_, _, _, _, _)
AddColumns(sm, file, table_name, columns, allocs) ==
    IF columns = <<>> THEN SMResult(TRUE, "", sm, file, None, allocs)
    ELSE Let(CatalogInsert(sm, file, to_schema_row(Head(columns), table_name)), LAMBDA c :
             IF ~c.ok THEN SMResult(FALSE, c.err, c.sm, c.file, None, allocs \o c.allocs)
             ELSE AddColumns(c.sm, c.file, table_name, Tail(columns), allocs \o c.allocs))

\* StorageManager::add_table_schema
add_table_schema(sm, file, schema) ==
    Let(CatalogInsert(sm, file,
                      Row_new(<<VText(STR_table), VText(schema.table_name),
                                VText(schema.table_name), VInt(schema.root_page_id),
                                VText(schema.sql)>>)), LAMBDA t :
        IF ~t.ok THEN t
        ELSE
    Let(AddColumns(t.sm, t.file, schema.table_name, schema.columns, t.allocs), LAMBDA c :
        IF ~c.ok THEN c
        ELSE SMResult(TRUE, "",
                      [c.sm EXCEPT !.table_roots = MapPut(@, schema.table_name, schema.root_page_id),
                                   !.table_schemas = MapPut(@, schema.table_name, schema)],
                      c.file, None, c.allocs)))

\* StorageManager::table_exists
table_exists(sm, table_name) == table_name \in DOMAIN sm.table_schemas

\* StorageManager::create_table_with_schema
create_table_with_schema(sm, file, table_name, columns, sql) ==
    IF table_exists(sm, table_name) THEN SMResult(FALSE, "ExecutionError", sm, file, None, <<>>)
    ELSE
    Let(validate_columns(columns), LAMBDA invalid :
        IF invalid # "" THEN SMResult(FALSE, invalid, sm, file, None, <<>>)
        ELSE
    Let(allocate_new_page(sm, file, "LeafTable"), LAMBDA a :
    Let(add_table_schema(a.sm, a.file, TableSchema_new(table_name, columns, a.ret, sql)),
        LAMBDA s :
        IF ~s.ok THEN SMResult(FALSE, s.err, s.sm, s.file, None, a.allocs \o s.allocs)
        ELSE SMResult(TRUE, "", s.sm, s.file, a.ret, a.allocs \o s.allocs))))

\* StorageManager::update_table_root
update_table_root(sm, table_name, new_root_page_id) ==
    [sm EXCEPT !.table_roots = MapPut(@, table_name, new_root_page_id)]

\* StorageManager::insert_into_table with TableInserter::new and
\* TableInserter::insert; ret is the new root the tree returned, or None
insert_into_table(sm, file, table_name, row) ==
    IF table_name \notin DOMAIN sm.table_roots
    THEN SMResult(FALSE, "TableNotFound", sm, file, None, <<>>)
    ELSE
    Let(sm.table_roots[table_name], LAMBDA root_page_id :
    Let(BPlusTree_insert(BPlusTree_new_with_extras(file.pages, root_page_id), row), LAMBDA ins :
    Let([file EXCEPT !.pages = ins.t.pages], LAMBDA file1 :
    Let(IF ins.new_root # None THEN ins.new_root ELSE root_page_id, LAMBDA inserter_root :
        IF ~ins.ok THEN SMResult(FALSE, ins.err, sm, file1, None, TreeAllocs(ins.t))
        ELSE SMResult(TRUE, "",
                      IF sm.table_roots[table_name] # inserter_root
                      THEN update_table_root(sm, table_name, inserter_root) ELSE sm,
                      file1, ins.new_root, TreeAllocs(ins.t))))))

\* StorageManager::scan_table without a predicate: [kind, rows]
scan_table(sm, file, table_name) ==
    IF table_name \notin DOMAIN sm.table_roots THEN [kind |-> "err", rows |-> <<>>]
    ELSE ScanAll(file.pages, sm.table_roots[table_name])

\* =================================================================== state
\* file, sm: the database file and the storage manager of the process.
\* tree: a B+-tree kept open over its own file.  page, before: a page under
\* page operations and its value before the last operation.
\* inserted: per table, the rows whose insert returned Ok, in call order.
\* created: per table, what the last successful create-table call supplied
\* and returned.  allocs: every page allocation made, in order.
\* last: the last operation and its result.  count: operations made so far
\* and how many of them returned an error.
VARIABLES file, sm, tree, page, before, inserted, created, allocs, last, count,
          scanner, scanned

vars == <<file, sm, tree, page, before, inserted, created, allocs, last, count,
          scanner, scanned>>

\* ------------------------------------------------------------------ bounds
MaxTables == 2
MaxInserts == 4
MaxKey == 4
MaxReopens == 1
BigPayload == 1000
HugePayload == 2048

\* ------------------------------------------------------------------ inputs
\* "a", "b"
NameA == Raw(<<97>>)
NameB == Raw(<<98>>)
\* "id", "v"
NameId == Raw(<<105, 100>>)
NameV == Raw(<<118>>)

\* a short CREATE TABLE text and one that fills a quarter of a page
ShortSql == BRun(120, 20)
LongSql == BRun(120, 950)

\* rows [Integer key, Text payload]: a big row stays under the overflow
\* threshold and three of them fill a leaf; a huge row is over the threshold
BigRow(k) == Row_new(<<VInt(k), VText(BRun(120, BigPayload))>>)
HugeRow(k) == Row_new(<<VInt(k), VText(BRun(120, HugePayload))>>)
RowInputs == {BigRow(k) : k \in 1..MaxKey} \cup {HugeRow(MaxKey + 1)}

PlainColumns ==
    <<ColumnSchema(NameId, "Integer", 0, FALSE, NoDefault, TRUE, FALSE),
      ColumnSchema(NameV, "Text", 1, TRUE, NoDefault, FALSE, FALSE)>>

\* the keys of a sequence of rows
KeysOf(rows) == [i \in 1..Len(rows) |-> IF rows[i].values = <<>> THEN VNull ELSE rows[i].values[1]]
KeySet(rows) == {KeysOf(rows)[i] : i \in 1..Len(rows)}

NoTree == BPlusTree_new_with_extras(<<>>, 1)
NoPage == Page_new(1, "LeafTable")
NoScanner == SequentialScanner_new(0)
NoCount == [creates |-> 0, inserts |-> 0, reopens |-> 0, errors |-> 0]
Failed(r) == IF r.ok THEN 0 ELSE 1
Result(op, table, ok, err, ret) == [op |-> op, table |-> table, ok |-> ok, err |-> err, ret |-> ret]

\* ------------------------------------------------- storage manager actions
\* StorageManager::new on a path that does not exist
Init ==
    /\ file = create_new
    /\ sm = StorageManager_new(create_new).sm
    /\ tree = NoTree
    /\ page = NoPage
    /\ before = NoPage
    /\ inserted = <<>>
    /\ created = <<>>
    /\ allocs = <<[by |-> "create_new", id |-> 1]>>
    /\ last = Result("new", <<>>, TRUE, "", None)
    /\ count = NoCount
    /\ scanner = NoScanner
    /\ scanned = <<>>

\* what every storage manager call leaves behind; a panic ends the process
FinishAs(result, r) ==
    /\ file' = r.file
    /\ sm' = IF r.err = "Panic" THEN ClosedManager ELSE r.sm
    /\ allocs' = allocs \o r.allocs
    /\ last' = result
    /\ UNCHANGED <<tree, page, before, scanner, scanned>>

Finish(op, table_name, r) == FinishAs(Result(op, table_name, r.ok, r.err, r.ret), r)

CreateTable(names, sqls, max) ==
    \E table_name \in names, sql \in sqls :
        /\ sm.open
        /\ count.creates < max
        /\ \E r \in {create_table(sm, file, table_name, sql)} :
            /\ Finish("create_table", table_name, r)
            /\ count' = [count EXCEPT !.creates = @ + 1, !.errors = @ + Failed(r)]
            /\ created' = IF r.ok
                          THEN MapPut(created, table_name,
                                      [root |-> r.ret, sql |-> sql, columns |-> <<>>])
                          ELSE created
            /\ inserted' = IF r.ok THEN MapPut(inserted, table_name, <<>>) ELSE inserted

CreateTableWithSchema(names, column_sets, sqls, max) ==
    \E table_name \in names, columns \in column_sets, sql \in sqls :
        /\ sm.open
        /\ count.creates < max
        /\ \E r \in {create_table_with_schema(sm, file, table_name, columns, sql)} :
            /\ FinishAs([op |-> "create_table_with_schema", table |-> table_name,
                         ok |-> r.ok, err |-> r.err, ret |-> r.ret, columns |-> columns], r)
            /\ count' = [count EXCEPT !.creates = @ + 1, !.errors = @ + Failed(r)]
            /\ created' = IF r.ok
                          THEN MapPut(created, table_name,
                                      [root |-> r.ret, sql |-> sql, columns |-> columns])
                          ELSE created
            /\ inserted' = IF r.ok THEN MapPut(inserted, table_name, <<>>) ELSE inserted

\* The keys of a table arrive in runs: a new key is distinct from the keys
\* the table holds and next to one of them, above or below.
FirstByte(v) == IF v.t = "Text" THEN BAt(v.s, 0) ELSE v.i
NextTo(key, rows) ==
    /\ key \notin KeySet(rows)
    /\ \/ rows = <<>>
       \/ \E q \in KeySet(rows) : FirstByte(key) \in {FirstByte(q) - 1, FirstByte(q) + 1}

InsertIntoTable(names, rows, max) ==
    \E table_name \in names, row \in rows :
        /\ sm.open
        /\ count.inserts < max
        /\ table_name \in DOMAIN inserted
        /\ NextTo(row.values[1], inserted[table_name])
        /\ \E r \in {insert_into_table(sm, file, table_name, row)} :
            /\ Finish("insert_into_table", table_name, r)
            /\ count' = [count EXCEPT !.inserts = @ + 1, !.errors = @ + Failed(r)]
            /\ inserted' = IF r.ok THEN [inserted EXCEPT ![table_name] = Append(@, row)]
                           ELSE inserted
            /\ UNCHANGED created

\* the storage manager is dropped
Close ==
    /\ sm.open
    /\ count.reopens < MaxReopens
    /\ sm' = ClosedManager
    /\ last' = Result("close", <<>>, TRUE, "", None)
    /\ UNCHANGED <<file, tree, page, before, inserted, created, allocs, count, scanner, scanned>>

\* StorageManager::new on the path of the file
Reopen ==
    /\ ~sm.open
    /\ count.reopens < MaxReopens
    /\ \E r \in {StorageManager_new(file)} :
        /\ sm' = r.sm
        /\ last' = Result("reopen", <<>>, r.ok, r.err, None)
        /\ count' = [count EXCEPT !.reopens = @ + 1, !.errors = @ + Failed(r)]
        /\ UNCHANGED <<file, tree, page, before, inserted, created, allocs, scanner, scanned>>

Next ==
    \/ CreateTable({NameA}, {ShortSql}, MaxTables)
    \/ CreateTableWithSchema({NameA}, {PlainColumns}, {ShortSql}, MaxTables)
    \/ InsertIntoTable({NameA}, RowInputs, MaxInserts)
    \/ Close
    \/ Reopen

Spec == Init /\ [][Next]_vars

\* ------------------------------------------------------- two-table actions
\* The storage manager with two table names: create-table calls and inserts
\* for either of them, in any order.
TwoTableNext ==
    \/ CreateTable({NameA, NameB}, {ShortSql}, MaxTables)
    \/ InsertIntoTable({NameA, NameB}, RowInputs, MaxInserts)

TwoTableSpec == Init /\ [][TwoTableNext]_vars

\* --------------------------------------------------------- catalog actions
\* The storage manager under create-table calls only, with more tables, CREATE
\* TABLE texts that fill the catalog page at the fourth table, and a column
\* with a default value.
MaxCatalogTables == 4

DefaultColumns ==
    <<ColumnSchema(NameId, "Integer", 0, FALSE, NoDefault, TRUE, FALSE),
      ColumnSchema(NameV, "Blob", 1, TRUE, SomeDefault(VBlob(Raw(<<1, 2, 3>>))), FALSE, FALSE)>>

CatalogNext ==
    \/ CreateTable({NameA, NameB}, {LongSql}, MaxCatalogTables)
    \/ CreateTableWithSchema({NameA, NameB}, {PlainColumns, DefaultColumns}, {ShortSql},
                             MaxCatalogTables)
    \/ Close
    \/ Reopen

CatalogSpec == Init /\ [][CatalogNext]_vars

\* ---------------------------------------------------------- schema actions
\* create_table_with_schema under column lists that validate_columns
\* accepts and refuses: no columns, a name twice, a position twice, a gap in
\* the positions, positions that do not start at 0, two primary keys.
MaxSchemaTables == 3

IdColumn(position, primary_key) ==
    ColumnSchema(NameId, "Integer", position, FALSE, NoDefault, primary_key, FALSE)
VColumn(position, primary_key) ==
    ColumnSchema(NameV, "Text", position, TRUE, NoDefault, primary_key, FALSE)

InvalidColumnSets ==
    {<<>>,
     <<IdColumn(0, TRUE), IdColumn(1, FALSE)>>,
     <<IdColumn(0, TRUE), VColumn(0, FALSE)>>,
     <<IdColumn(0, TRUE), VColumn(2, FALSE)>>,
     <<IdColumn(1, TRUE), VColumn(2, FALSE)>>,
     <<IdColumn(0, TRUE), VColumn(1, TRUE)>>}

ValidColumnSets ==
    {PlainColumns,
     <<IdColumn(1, FALSE), VColumn(0, FALSE)>>,
     <<VColumn(0, TRUE)>>}

SchemaNext ==
    \/ CreateTableWithSchema({NameA, NameB}, InvalidColumnSets \cup ValidColumnSets,
                             {ShortSql}, MaxSchemaTables)
    \/ CreateTable({NameB}, {ShortSql}, MaxSchemaTables)

SchemaSpec == Init /\ [][SchemaNext]_vars

\* ------------------------------------------------------- row validation
\* validate_row applied to one schema and one row.  The schemas are the
\* column lists of up to MaxColumns columns that validate_columns accepts;
\* the rows hold up to MaxRowValues values of every variant.
MaxColumns == 2
MaxRowValues == 2

ColumnTypes == {"Integer", "Real", "Text", "Null"}

ColumnInputs ==
    {ColumnSchema(name, data_type, position, nullable, NoDefault, FALSE, FALSE) :
        name \in {NameId, NameV}, data_type \in ColumnTypes,
        position \in 0..(MaxColumns - 1), nullable \in BOOLEAN}

SeqsUpTo(S, n) == UNION {[1..k -> S] : k \in 0..n}

ValidateColumnSets == {cs \in SeqsUpTo(ColumnInputs, MaxColumns) : validate_columns(cs) = ""}

ValueInputs == {VNull, VInt(1), VReal(1), VText(NameV), VBool(TRUE), VTimestamp(1)}

ValidateInit ==
    /\ file = create_new
    /\ sm = StorageManager_new(create_new).sm
    /\ tree = NoTree
    /\ page = NoPage
    /\ before = NoPage
    /\ inserted = <<>>
    /\ created = <<>>
    /\ allocs = <<[by |-> "create_new", id |-> 1]>>
    /\ \E columns \in ValidateColumnSets, values \in SeqsUpTo(ValueInputs, MaxRowValues) :
           last = [op |-> "new", table |-> NameA, ok |-> TRUE, err |-> "", ret |-> None,
                   columns |-> columns, values |-> values]
    /\ count = NoCount
    /\ scanner = NoScanner
    /\ scanned = <<>>

ValidateRow ==
    /\ last.op = "new"
    /\ \E err \in {validate_row(TableSchema_new(last.table, last.columns, 2, ShortSql),
                                 Row_new(last.values))} :
           /\ last' = [last EXCEPT !.op = "validate_row", !.ok = (err = ""), !.err = err]
           /\ count' = [count EXCEPT !.errors = @ + (IF err = "" THEN 0 ELSE 1)]
    /\ UNCHANGED <<file, sm, tree, page, before, inserted, created, allocs, scanner, scanned>>

ValidateNext == ValidateRow

ValidateSpec == ValidateInit /\ [][ValidateNext]_vars

\* ------------------------------------------------------ row round trips
\* One row, with or without a row id and with up to MaxRowValues values of
\* every variant, is encoded and the bytes are decoded again.
RowIdInputs == {None, 0, 7, 70000}

RowValueInputs ==
    {VNull, VInt(0), VInt(70000), VReal(1), VText(<<>>), VText(NameV),
     VBlob(BRun(0, 300)), VBool(TRUE), VBool(FALSE), VTimestamp(256)}

RowInit ==
    /\ file = create_new
    /\ sm = StorageManager_new(create_new).sm
    /\ tree = NoTree
    /\ page = NoPage
    /\ before = NoPage
    /\ inserted = <<>>
    /\ created = <<>>
    /\ allocs = <<[by |-> "create_new", id |-> 1]>>
    /\ \E row_id \in RowIdInputs, values \in SeqsUpTo(RowValueInputs, MaxRowValues) :
           last = [op |-> "new", ok |-> TRUE, row |-> [row_id |-> row_id, values |-> values],
                   size |-> 0, bytes |-> <<>>, decoded |-> Row_new(<<>>)]
    /\ count = NoCount
    /\ scanner = NoScanner
    /\ scanned = <<>>

RowUnchanged ==
    UNCHANGED <<file, sm, tree, page, before, inserted, created, allocs, count, scanner, scanned>>

\* row.size() and row.to_bytes()
RowToBytes ==
    /\ last.op = "new"
    /\ last' = [last EXCEPT !.op = "to_bytes", !.size = Row_size(last.row),
                            !.bytes = Row_to_bytes(last.row)]
    /\ RowUnchanged

\* Row::from_bytes on the bytes of the row
RowFromBytes ==
    /\ last.op = "to_bytes"
    /\ \E r \in {Row_from_bytes(last.bytes)} :
           last' = [last EXCEPT !.op = "from_bytes", !.ok = r.ok, !.decoded = r.row]
    /\ RowUnchanged

RowNext == RowToBytes \/ RowFromBytes

RowSpec == RowInit /\ [][RowNext]_vars

\* ------------------------------------------------------------ tree actions
\* A tree kept open over a file of its own that starts as one empty leaf,
\* page 1.  Its rows are one Text key of 1005 bytes: three fill a leaf, and
\* their separators fill an interior page at the fourth leaf split.
MaxTreeInserts == 10
MaxTreeKey == 10
TreeKeyLength == 1005

TreeRow(k) == Row_new(<<VText(BCat(BRun(k, 1), BRun(120, TreeKeyLength - 1)))>>)
TreeRows == {TreeRow(k) : k \in 1..MaxTreeKey}

NoFile == [database_size_pages |-> 0, pages |-> <<>>]

TreeInit ==
    /\ tree = BPlusTree_new_with_extras(<<to_bytes(Page_new(1, "LeafTable"))>>, 1)
    /\ file = NoFile
    /\ sm = ClosedManager
    /\ page = NoPage
    /\ before = NoPage
    /\ inserted = (NameA :> <<>>)
    /\ created = <<>>
    /\ allocs = <<[by |-> "create_new", id |-> 1]>>
    /\ last = Result("new", NameA, TRUE, "", None)
    /\ count = NoCount
    /\ scanner = NoScanner
    /\ scanned = <<>>

\* BPlusTree::insert on the open tree; a panic ends the process
TreeInsertOf(rows, max) ==
    \E row \in rows :
        /\ last.err # "Panic"
        /\ count.inserts < max
        /\ NextTo(row.values[1], inserted[NameA])
        /\ \E r \in {BPlusTree_insert(tree, row)} :
            /\ tree' = [r.t EXCEPT !.allocated = <<>>, !.trace = <<>>]
            /\ allocs' = allocs \o TreeAllocs(r.t)
            /\ last' = Result("insert", NameA, r.ok, r.err, r.new_root)
            /\ inserted' = IF r.ok THEN [inserted EXCEPT ![NameA] = Append(@, row)] ELSE inserted
            /\ count' = [count EXCEPT !.inserts = @ + 1, !.errors = @ + Failed(r)]
            /\ UNCHANGED <<file, sm, page, before, created, scanner, scanned>>

TreeInsert == TreeInsertOf(TreeRows, MaxTreeInserts)

TreeNext == TreeInsert

TreeSpec == TreeInit /\ [][TreeNext]_vars

\* ----------------------------------------------------- traced tree actions
\* The same tree, with one more row whose bytes are over the overflow
\* threshold and a row without values; every insert leaves the steps it
\* took in `last`.
HugeKeyLength == 1100

\* The keys arrive in runs as before, except that an ascending run may leave
\* out the key whose first byte is GapKey, to be inserted later between
\* its neighbours.
GapKey == 4
NextToOrOver(key, rows) ==
    \/ NextTo(key, rows)
    \/ /\ key \notin KeySet(rows)
       /\ FirstByte(key) = GapKey + 1
       /\ \E q \in KeySet(rows) : FirstByte(q) = GapKey - 1
HugeTreeRow == Row_new(<<VText(BCat(BRun(MaxTreeKey + 1, 1), BRun(120, HugeKeyLength - 1)))>>)

\* BPlusTree::insert on the open tree; a panic ends the process
TracedInsert ==
    \E row \in TreeRows \cup {HugeTreeRow, Row_new(<<>>)} :
        /\ last.err # "Panic"
        /\ count.inserts < MaxTreeInserts
        /\ IF row.values = <<>> THEN TRUE ELSE NextToOrOver(row.values[1], inserted[NameA])
        /\ \E r \in {BPlusTree_insert(tree, row)} :
            /\ tree' = [r.t EXCEPT !.allocated = <<>>, !.trace = <<>>]
            /\ allocs' = allocs \o TreeAllocs(r.t)
            /\ last' = [op |-> "insert", table |-> NameA, ok |-> r.ok, err |-> r.err,
                        ret |-> r.new_root, row |-> row, trace |-> r.t.trace]
            /\ inserted' = IF r.ok THEN [inserted EXCEPT ![NameA] = Append(@, row)] ELSE inserted
            /\ count' = [count EXCEPT !.inserts = @ + 1, !.errors = @ + Failed(r)]
            /\ UNCHANGED <<file, sm, page, before, created, scanner, scanned>>

TracedNext == TracedInsert

TracedSpec == TreeInit /\ [][TracedNext]_vars

\* --------------------------------------------------------- scanner actions
\* A scanner over the file of a tree of up to MaxScanInserts rows (two
\* leaves from the fourth row on, three at the seventh).  The tree takes its rows before the
\* scanner is made; `scanned` is the rows the scanner returned since it was
\* made or reset.
MaxScanInserts == 7
MaxScanKey == 7
MaxBatch == 3

ScanRows == {TreeRow(k) : k \in 1..MaxScanKey}

ScanResult(op, kind, rows, k, from) ==
    [op |-> op, table |-> NameA, ok |-> kind \in {"row", "none", "ok"}, err |-> "",
     ret |-> None, kind |-> kind, rows |-> rows, k |-> k, from |-> from]

ScanTreeInsert ==
    /\ scanner = NoScanner
    /\ TreeInsertOf(ScanRows, MaxScanInserts)

\* SequentialScanner::new on the root of the tree
NewScanner ==
    /\ scanner = NoScanner
    /\ last.err # "Panic"
    /\ scanner' = SequentialScanner_new(tree.root_page_id)
    /\ scanned' = <<>>
    /\ last' = ScanResult("new_scanner", "ok", <<>>, 0, scanner)
    /\ UNCHANGED <<file, sm, tree, page, before, inserted, created, allocs, count>>

Scan ==
    /\ scanner # NoScanner
    /\ \E r \in {scan(scanner, tree.pages)} :
          /\ scanner' = r.sc
          /\ scanned' = IF r.kind = "row" THEN Append(scanned, r.row) ELSE scanned
          /\ last' = ScanResult("scan", r.kind, IF r.kind = "row" THEN <<r.row>> ELSE <<>>,
                                1, scanner)
    /\ UNCHANGED <<file, sm, tree, page, before, inserted, created, allocs, count>>

ScanBatch ==
    /\ scanner # NoScanner
    /\ \E batch_size \in 1..MaxBatch :
          \E r \in {scan_batch(scanner, tree.pages, batch_size)} :
              /\ scanner' = r.sc
              /\ scanned' = scanned \o r.rows
              /\ last' = ScanResult("scan_batch", r.kind, r.rows, batch_size, scanner)
    /\ UNCHANGED <<file, sm, tree, page, before, inserted, created, allocs, count>>

Reset ==
    /\ scanner # NoScanner
    /\ scanner' = reset(scanner)
    /\ scanned' = <<>>
    /\ last' = ScanResult("reset", "ok", <<>>, 0, scanner)
    /\ UNCHANGED <<file, sm, tree, page, before, inserted, created, allocs, count>>

ScanNext == ScanTreeInsert \/ NewScanner \/ Scan \/ ScanBatch \/ Reset

ScanSpec == TreeInit /\ [][ScanNext]_vars

\* ------------------------------------------------------ full scan actions
\* A scanner over the file of a tree of up to MaxTreeInserts rows (leaf
\* splits, absorbed splits and an interior split with a new root), called
\* until it returns None as StorageManager::scan_table calls it.
LiveTreeInsert ==
    /\ scanner = NoScanner
    /\ TreeInsertOf(TreeRows, MaxTreeInserts)

ScanLiveNext == LiveTreeInsert \/ NewScanner \/ Scan

\* ENABLED <<Scan>>_vars written out: there is a scanner, and a call of
\* scan() changes the scanner, returns a row or has a result other than
\* that of the last call
ScanEnabled ==
    /\ scanner # NoScanner
    /\ \E r \in {scan(scanner, tree.pages)} :
          \/ r.sc # scanner
          \/ r.kind = "row"
          \/ last # ScanResult("scan", r.kind, <<>>, 1, scanner)

\* Weak fairness of Scan, WF_vars(Scan), as the loop
\* `while let Some(row) = scanner.scan()?` of scan_table gives it: as long
\* as a call of scan() can change anything it is made again.
ScanFairness == []<>(~ScanEnabled) \/ []<><<Scan>>_vars

ScanLiveSpec == TreeInit /\ [][ScanLiveNext]_vars /\ ScanFairness

\* ------------------------------------------------------------ page actions
\* One LeafTable page under the operations of Page.  Payloads: empty, a few
\* bytes, as long as an overflow pointer, and over the overflow threshold
\* (two of the last fit a page, a third does not).
MaxPageOps == 3
MaxSlotIndex == 1
Payloads == {<<>>, BRun(65, 3), BRun(66, SERIALIZED_SIZE), BRun(67, 2020)}
RowIds == {None, 5}
OverflowIds == {None, 9}

PageResult(op, r, data, row_id, index) ==
    [op |-> op, ok |-> r.ok, err |-> r.err, ret |-> r.ret, data |-> data, row_id |-> row_id,
     index |-> index]

PageInit ==
    /\ page = Page_new(1, "LeafTable")
    /\ before = Page_new(1, "LeafTable")
    /\ last = PageResult("new", POk(NoPage, -1), <<>>, None, -1)
    /\ count = NoCount
    /\ file = NoFile
    /\ sm = ClosedManager
    /\ tree = NoTree
    /\ inserted = <<>>
    /\ created = <<>>
    /\ allocs = <<>>
    /\ scanner = NoScanner
    /\ scanned = <<>>

\* what every page operation leaves behind
PageFinish(op, r, data, row_id, index) ==
    /\ count.inserts < MaxPageOps
    /\ page' = r.page
    /\ before' = page
    /\ last' = PageResult(op, r, data, row_id, index)
    /\ count' = [count EXCEPT !.inserts = @ + 1, !.errors = @ + Failed(r)]
    /\ UNCHANGED <<file, sm, tree, inserted, created, allocs, scanner, scanned>>

InsertCell ==
    \E data \in Payloads, row_id \in RowIds :
        \E r \in {insert_cell(page, data, row_id)} :
            PageFinish("insert_cell", r, data, row_id, -1)

InsertCellWithOverflow ==
    \E data \in Payloads, overflow_page_id \in OverflowIds :
        \E r \in {insert_cell_with_overflow(page, data, None, overflow_page_id)} :
            PageFinish("insert_cell_with_overflow", r, data, None, -1)

UpdateCell ==
    \E slot_index \in 0..MaxSlotIndex, data \in Payloads, row_id \in RowIds :
        \E r \in {update_cell(page, slot_index, data, row_id)} :
            PageFinish("update_cell", r, data, row_id, slot_index)

DeleteCell ==
    \E slot_index \in 0..MaxSlotIndex :
        \E r \in {delete_cell(page, slot_index)} :
            PageFinish("delete_cell", r, <<>>, None, slot_index)

\* compact() does not count as one of the MaxPageOps cell operations; a
\* second compaction in a row changes nothing and is left out
Compact ==
    \E r \in {compact(page)} :
        /\ last.op # "compact"
        /\ page' = r.page
        /\ before' = page
        /\ last' = PageResult("compact", r, <<>>, None, -1)
        /\ count' = [count EXCEPT !.errors = @ + Failed(r)]
        /\ UNCHANGED <<file, sm, tree, inserted, created, allocs, scanner, scanned>>

PageNext == InsertCell \/ InsertCellWithOverflow \/ UpdateCell \/ DeleteCell \/ Compact

PageSpec == PageInit /\ [][PageNext]_vars

\* ----------------------------------------------- page serialization actions
\* The page of PageSpec with, in addition, the write of next_leaf_page_id
\* that the tree makes on a page (a plain field write), its serialization,
\* the reload of its bytes, and the metadata-only load of its header and slot
\* directory, after which `page` is in metadata-only mode.
NextLeafIds == {7}

SetNextLeaf ==
    \E id \in NextLeafIds :
        PageFinish("set_next_leaf",
                   POk([page EXCEPT !.next_leaf_page_id = id], -1), <<>>, None, -1)

\* Page::to_bytes as a Result
PageToBytes(p) == IF PageToBytesErr(p) THEN PErr(p, "SerializationError") ELSE POk(p, -1)

ToBytes ==
    \E r \in {PageToBytes(page)} : PageFinish("to_bytes", r, <<>>, None, -1)

\* Page::from_bytes(&p.to_bytes()?): the reloaded page replaces the page
Reload ==
    /\ ~PageToBytesErr(page)
    /\ \E r \in {from_bytes(to_bytes(page))} :
          PageFinish("from_bytes", IF r.ok THEN r ELSE PErr(page, r.err), <<>>, None, -1)

\* Page::from_header_bytes on the serialized page
LoadHeader ==
    /\ ~PageToBytesErr(page)
    /\ \E r \in {from_header_bytes(to_bytes(page))} :
          PageFinish("from_header_bytes", IF r.ok THEN r ELSE PErr(page, r.err),
                     <<>>, None, -1)

PageIoNext ==
    \/ InsertCell
    \/ UpdateCell
    \/ DeleteCell
    \/ Compact
    \/ SetNextLeaf
    \/ ToBytes
    \/ Reload
    \/ LoadHeader

PageIoSpec == PageInit /\ [][PageIoNext]_vars

\* ---------------------------------------------------- leaf scan actions
\* A scanner over a file of two chained LeafTable pages whose cells were put
\* in and taken out with the operations of Page: serialized rows, cells that
\* are not the bytes of a row, and tombstones.  The pages take their cells
\* before the scanner is made.
MaxLeafOps == 4
LeafRow(k) == Row_new(<<VInt(k)>>)
LeafPayloads == {Row_to_bytes(LeafRow(1)), Row_to_bytes(LeafRow(2)), BRun(66, 3)}

LeafInit ==
    /\ tree = BPlusTree_new_with_extras(
                  <<to_bytes(update_checksum([Page_new(1, "LeafTable")
                                                 EXCEPT !.next_leaf_page_id = 2])),
                    to_bytes(Page_new(2, "LeafTable"))>>, 1)
    /\ file = NoFile
    /\ sm = ClosedManager
    /\ page = NoPage
    /\ before = NoPage
    /\ inserted = (NameA :> <<>>)
    /\ created = <<>>
    /\ allocs = <<>>
    /\ last = ScanResult("new", "ok", <<>>, 0, NoScanner)
    /\ count = NoCount
    /\ scanner = NoScanner
    /\ scanned = <<>>

\* the page is read from the file, changed and written back
LeafFinish(op, page_id, r) ==
    /\ scanner = NoScanner
    /\ count.inserts < MaxLeafOps
    /\ r.ok
    /\ tree' = [tree EXCEPT !.pages = FileWrite(@, page_id, to_bytes(r.page))]
    /\ last' = ScanResult(op, "ok", <<>>, page_id, scanner)
    /\ count' = [count EXCEPT !.inserts = @ + 1]
    /\ UNCHANGED <<file, sm, page, before, inserted, created, allocs, scanner, scanned>>

LeafInsertCell ==
    \E page_id \in 1..2, data \in LeafPayloads :
        \E r \in {insert_cell(from_bytes(tree.pages[page_id]).page, data, None)} :
            LeafFinish("insert_cell", page_id, r)

LeafDeleteCell ==
    \E page_id \in 1..2, slot_index \in 0..MaxSlotIndex :
        \E r \in {delete_cell(from_bytes(tree.pages[page_id]).page, slot_index)} :
            LeafFinish("delete_cell", page_id, r)

LeafScanNext == LeafInsertCell \/ LeafDeleteCell \/ NewScanner \/ Scan \/ Reset

LeafScanSpec == LeafInit /\ [][LeafScanNext]_vars

\* ================================================================== claims
\* the keys of a sequence are strictly ascending
Ascending(keys) == \A i \in 1..(Len(keys) - 1) : partial_cmp(keys[i], keys[i + 1]) = "Less"

\* how often each element occurs in a sequence
Multiset(seq) ==
    [x \in {seq[i] : i \in 1..Len(seq)} |-> Cardinality({i \in 1..Len(seq) : seq[i] = x})]

\* the tables that exist and have taken inserts
Tables == IF sm.open THEN (DOMAIN inserted) \cap (DOMAIN sm.table_roots) ELSE {}

\* C1: after inserts with distinct keys in any order, a full scan of a table
\* (scan() until None) yields the keys in ascending order.
C1_ScanAscending ==
    \A t \in Tables :
        scan_table(sm, file, t).kind = "ok" /\ Ascending(KeysOf(scan_table(sm, file, t).rows))

\* C2: after successful inserts with distinct keys into a tree, leaf and
\* interior splits included, a full scan from the root returns every
\* inserted row exactly once: as many rows as inserts, with the same keys.
C2_ScanComplete ==
    LET s == ScanAll(tree.pages, tree.root_page_id)
    IN  /\ s.kind = "ok"
        /\ Len(s.rows) = Len(inserted[NameA])
        /\ KeySet(s.rows) = KeySet(inserted[NameA])

\* C3: a row of more than 1024 serialized bytes whose insert succeeded is
\* returned by a scan of its table as a row equal to the inserted one.
C3_OverflowRowIntact ==
    \A t \in Tables :
        \A i \in 1..Len(inserted[t]) :
            Row_size(inserted[t][i]) > PAGE_SIZE \div 4 =>
                \E j \in 1..Len(scan_table(sm, file, t).rows) :
                    scan_table(sm, file, t).rows[j] = inserted[t][i]

\* the schema a create-table call supplied, as the schema manager keeps it
SuppliedSchema(t) == TableSchema_new(t, created[t].columns, created[t].root, created[t].sql)

\* C4: after create-table calls (with or without columns), close and reopen
\* succeed, table_roots binds each table to the root its create-table call
\* returned, and the schema of each table is the one supplied.
C4_ReopenKeepsTables ==
    (last.op = "reopen") =>
        /\ last.ok
        /\ \A t \in DOMAIN created :
            /\ t \in DOMAIN sm.table_roots
            /\ sm.table_roots[t] = created[t].root
            /\ t \in DOMAIN sm.table_schemas
            /\ sm.table_schemas[t] = SuppliedSchema(t)

\* C5: when an insert makes the tree return a new root, table_roots of the
\* table is the new root and the catalog row of the table in the file is
\* rewritten to it, which is what a reopen loads.
C5_NewRootPersisted ==
    (last.op = "insert_into_table" /\ last.ok /\ last.ret # None) =>
        /\ sm.table_roots[last.table] = last.ret
        /\ load_table_roots_and_schemas(file).ok
        /\ last.table \in DOMAIN load_table_roots_and_schemas(file).table_roots
        /\ load_table_roots_and_schemas(file).table_roots[last.table] = last.ret

\* C6: after an insert that returns a new root, the root of the tree is the
\* returned id and a scan from the returned root over the file yields the
\* multiset of the rows inserted so far.
C6_NewRootScan ==
    (last.op = "insert" /\ last.ok /\ last.ret # None) =>
        /\ tree.root_page_id = last.ret
        /\ ScanAll(tree.pages, last.ret).kind = "ok"
        /\ Multiset(ScanAll(tree.pages, last.ret).rows) = Multiset(inserted[NameA])

\* C7: no allocation, by the storage manager or by a tree, returns a page id
\* that an earlier allocation returned.
C7_PageIdsNotReused ==
    \A i, j \in 1..Len(allocs) : i < j => allocs[i].id # allocs[j].id

\* C8: after every completed operation the file is 100 + page_count * 4096
\* bytes long, page_count is database_size_pages of the header in the file,
\* and the page-count check of open_existing passes.
C8_FileSizeMatchesHeader ==
    /\ open_existing(file).ok
    /\ sm.open =>
        /\ FileSize(file) = BAMBANG_HEADER_SIZE + sm.page_count * PAGE_SIZE
        /\ sm.page_count = file.database_size_pages

\* C9: after page operations that all returned Ok, the stored checksum is
\* the checksum recomputed over the header fields, the slot directory and
\* data[free_space_offset..]: verify_checksum() is true.
C9_ChecksumVerifies == (count.errors = 0) => verify_checksum(page)

\* a page that went through an insert, a delete and a compaction, all Ok
C9_Witness ==
    /\ count.errors = 0
    /\ last.op = "compact"
    /\ before.cell_count > 0
    /\ active_cell_count(before) < Len(before.slots)
    /\ verify_checksum(page)

\* C10: insert_cell(d, row_id) that returns Ok(i), for any payload and any
\* row id: i is the slot count before the call, get_cell(i) is Some(d), and
\* active_cell_count grew by one.
C10_InsertCellResult ==
    (last.op = "insert_cell" /\ last.ok) =>
        /\ last.ret = Len(before.slots)
        /\ get_cell(page, last.ret) = [some |-> TRUE, bytes |-> last.data]
        /\ active_cell_count(page) = active_cell_count(before) + 1

\* C11: after delete_cell(i) returns Ok, get_cell(i) is None and
\* is_slot_deleted(i) is true; delete_cell on a slot index out of range or on
\* an already deleted slot fails with InvalidSlotIndex.
C11_DeleteCellResult ==
    (last.op = "delete_cell") =>
        /\ last.ok => /\ ~get_cell(page, last.index).some
                      /\ is_slot_deleted(page, last.index)
        /\ (last.index >= Len(before.slots) \/ is_slot_deleted(before, last.index)) =>
               /\ ~last.ok
               /\ last.err = "InvalidSlotIndex"

\* a cell with a row id and bytes was deleted
C11_Witness ==
    /\ last.op = "delete_cell"
    /\ last.ok
    /\ get_cell(before, last.index).some
    /\ before.slots[last.index + 1].row_id # None
    /\ before.slots[last.index + 1].length > 0
    /\ is_slot_deleted(page, last.index)

\* a second delete of the same slot was refused
C11_WitnessRefused ==
    /\ last.op = "delete_cell"
    /\ ~last.ok
    /\ last.index < Len(before.slots)
    /\ before.slots[last.index + 1].offset = 0
    /\ before.free_space_offset < PAGE_SIZE

C13_SpaceAccounting ==
    (count.errors = 0) =>
        /\ PAGE_HEADER_SIZE + SLOT_DIRECTORY_ENTRY_SIZE * Len(page.slots)
               + (PAGE_SIZE - page.free_space_offset) <= PAGE_SIZE
        /\ page.cell_count = Len(page.slots)
        /\ available_space(page) =
               PAGE_SIZE - PAGE_HEADER_SIZE - SLOT_DIRECTORY_ENTRY_SIZE * page.cell_count
                   - (PAGE_SIZE - page.free_space_offset)

\* a page after an update that grew a cell, with another cell beside it
C13_Witness ==
    /\ count.errors = 0
    /\ last.op = "update_cell"
    /\ Len(page.slots) = 2
    /\ BLen(last.data) > before.slots[last.index + 1].length
    /\ page.free_space_offset < before.free_space_offset
    /\ available_space(page) =
           PAGE_SIZE - PAGE_HEADER_SIZE - SLOT_DIRECTORY_ENTRY_SIZE * page.cell_count
               - (PAGE_SIZE - page.free_space_offset)

\* C14: insert_cell(d) on a page where can_fit(d.len()) is false yields
\* PageFull (and leaves the page as it was).
C14_InsertFullPage ==
    (last.op = "insert_cell" /\ ~can_fit(before, BLen(last.data))) =>
        /\ ~last.ok
        /\ last.err = "PageFull"
        /\ page = before

\* a third 2020-byte cell was offered to a page holding two of them
C14_Witness ==
    /\ last.op = "insert_cell"
    /\ ~can_fit(before, BLen(last.data))
    /\ available_space(before) > 0
    /\ Len(before.slots) = 2
    /\ last.err = "PageFull"

\* two pages agree in their header fields, their slot directory and the
\* bytes of their cells
SamePage(a, b) ==
    /\ a.page_id = b.page_id
    /\ a.page_type = b.page_type
    /\ a.parent_page_id = b.parent_page_id
    /\ a.next_leaf_page_id = b.next_leaf_page_id
    /\ a.cell_count = b.cell_count
    /\ a.free_space_offset = b.free_space_offset
    /\ a.checksum = b.checksum
    /\ a.has_data = b.has_data
    /\ a.slots = b.slots
    /\ \A i \in 0..(Len(b.slots) - 1) : get_cell(a, i) = get_cell(b, i)

\* C15: from_bytes(p.to_bytes()) succeeds and equals p for every page p not
\* in metadata-only mode that page operations reach: pages with regular
\* cells of exactly 12 bytes, with tombstones, and with header fields set
\* after the last cell insert included.
C15_RoundTrip ==
    (last.op = "from_bytes") =>
        /\ last.ok
        /\ SamePage(page, before)

\* the operations that need the cell data of the page
FullPageOps == {"insert_cell", "update_cell", "delete_cell", "compact", "to_bytes"}

\* C16: on a metadata-only page, insert_cell, update_cell, delete_cell,
\* compact and to_bytes each fail with a serialization error, and get_cell
\* returns None for every index.
C16_MetadataOnly ==
    /\ (is_metadata_only(before) /\ last.op \in FullPageOps) =>
           /\ ~last.ok
           /\ last.err = "SerializationError"
           /\ page = before
    /\ is_metadata_only(page) =>
           \A i \in 0..Len(page.slots) : ~get_cell(page, i).some

\* an update was refused on the metadata-only load of a page with a cell
C16_Witness ==
    /\ is_metadata_only(before)
    /\ last.op = "update_cell"
    /\ last.index < Len(before.slots)
    /\ before.slots[last.index + 1].length > 0
    /\ last.err = "SerializationError"
    /\ ~get_cell(page, last.index).some

\* C17: after update_cell(i, new_data, row_id) returns Ok, in the equal,
\* the shorter and the longer case, get_cell(i) is new_data, slot i carries
\* row_id and get_cell(j) is unchanged for every other non-deleted slot j;
\* the longer case fails with PageFull when available_space() plus the old
\* length is less than the new length.
C17_UpdateCellResult ==
    (last.op = "update_cell") =>
        /\ last.ok =>
              /\ get_cell(page, last.index) = [some |-> TRUE, bytes |-> last.data]
              /\ page.slots[last.index + 1].row_id = last.row_id
              /\ \A j \in 0..(Len(before.slots) - 1) :
                    (j # last.index /\ ~is_slot_deleted(before, j)) =>
                        get_cell(page, j) = get_cell(before, j)
        /\ ( /\ ~is_slot_deleted(before, last.index)
             /\ BLen(last.data) > before.slots[last.index + 1].length
             /\ available_space(before) + before.slots[last.index + 1].length < BLen(last.data) ) =>
               /\ ~last.ok
               /\ last.err = "PageFull"

\* a is the beginning of b
IsPrefix(a, b) == Len(a) <= Len(b) /\ SubSeq(b, 1, Len(a)) = a

\* the scan() sequence of the file: scan() from a new scanner until None
ScanSequence == ScanAll(tree.pages, scanner.root_page_id)

\* C18: scan_batch(k) never returns more than k rows, returns fewer than k
\* only when the scanner is exhausted, and the concatenation of successive
\* batches equals the scan() sequence.
C18_ScanBatch ==
    /\ (last.op = "scan_batch" /\ last.kind = "ok") =>
           /\ Len(last.rows) <= last.k
           /\ Len(last.rows) < last.k => scanner.is_exhausted
    /\ scanner # NoScanner =>
           /\ IsPrefix(scanned, ScanSequence.rows)
           /\ scanner.is_exhausted => scanned = ScanSequence.rows

\* a batch came back short at the end of a scan of three leaves, and the
\* batches together are the rows of the file
C18_Witness ==
    /\ last.op = "scan_batch"
    /\ last.from.current_page_id # None
    /\ Len(last.rows) > 0
    /\ Len(last.rows) < last.k
    /\ scanner.is_exhausted
    /\ Len(scanned) = MaxScanInserts
    /\ scanned = ScanSequence.rows
    /\ tree.next_page_id > 4

\* C19: reset() at any point (mid-leaf, after a leaf transition, after
\* exhaustion) clears the current leaf, the slot index, the prefetch queue
\* and the exhausted flag, and the full scan that follows starts at the
\* leftmost leaf and yields the complete row sequence.
C19_ResetRestarts ==
    /\ (last.op = "reset") =>
           /\ scanner.current_page_id = None
           /\ scanner.current_slot_index = 0
           /\ scanner.read_ahead_pages = <<>>
           /\ ~scanner.is_exhausted
           /\ ScanRest(scanner, tree.pages, <<>>, ScanFuel(tree.pages)) = ScanSequence
           /\ scan(scanner, tree.pages).kind = "row" =>
                  scan(scanner, tree.pages).sc.current_page_id
                      = find_first_leaf(tree.pages, scanner.root_page_id).leaf

\* a reset in the second leaf, past its first row, with a page prefetched
C19_Witness ==
    /\ last.op = "reset"
    /\ last.from.current_page_id # None
    /\ last.from.current_page_id # find_first_leaf(tree.pages, scanner.root_page_id).leaf
    /\ last.from.current_slot_index > 0
    /\ ~last.from.is_exhausted
    /\ Len(ScanSequence.rows) = MaxScanInserts
    /\ scanner = SequentialScanner_new(tree.root_page_id)

\* a reset of an exhausted scanner over two leaves
C19_WitnessExhausted ==
    /\ last.op = "reset"
    /\ last.from.is_exhausted
    /\ tree.root_page_id # 1
    /\ ~scanner.is_exhausted

\* a reset in the first of two leaves, between two of its rows
C19_WitnessMidLeaf ==
    /\ last.op = "reset"
    /\ last.from.current_page_id = find_first_leaf(tree.pages, scanner.root_page_id).leaf
    /\ last.from.current_slot_index = 1
    /\ tree.root_page_id # 1

\* the number of "table" rows the catalog in the file holds for a table
TableRowCount(t) ==
    LET s == ScanAll(file.pages, 1)
    IN  Cardinality({i \in 1..Len(s.rows) :
                        /\ Len(s.rows[i].values) >= 2
                        /\ s.rows[i].values[1] = VText(STR_table)
                        /\ s.rows[i].values[2] = VText(t)})

\* a create-table call, by either entry point, was made for a table name
\* that table_roots already held
DuplicateCreate ==
    /\ count'.creates = count.creates + 1
    /\ last'.table \in DOMAIN sm.table_roots

\* C20: creating a table whose name is already known is rejected, through
\* create_table(name, sql) and through create_table_with_schema alike: no
\* page is allocated for the rejected call, and the catalog holds exactly
\* one table row for every table.
C20_DuplicateRejected ==
    /\ [][DuplicateCreate =>
              /\ ~last'.ok
              /\ allocs' = allocs
              /\ file' = file]_vars
    /\ [](\A t \in DOMAIN created : TableRowCount(t) = 1)

\* a create_table_with_schema call was made with a column list that is
\* empty, repeats a name, has positions other than 0..n-1, or has two
\* primary keys
InvalidCreate ==
    /\ count'.creates = count.creates + 1
    /\ last'.op = "create_table_with_schema"
    /\ last'.columns \in InvalidColumnSets

\* the call was refused with InvalidData: no page allocated, the file and
\* with it the catalog unchanged, nothing registered
RefusedAsInvalid ==
    /\ ~last'.ok
    /\ last'.err = "InvalidData"
    /\ allocs' = allocs
    /\ file' = file
    /\ sm' = sm

\* C21 as stated: create_table_with_schema fails with InvalidData whenever
\* the column list is empty, has duplicate names, has positions that are not
\* exactly 0..n-1, or has more than one primary key, and then no page is
\* allocated, the catalog is unchanged and the table is not registered.
C21_InvalidColumnsAlways == [][InvalidCreate => RefusedAsInvalid]_vars

\* C21, amended: the same for a table name the schema manager does not hold
\* yet (for a name it holds the call fails with ExecutionError before the
\* columns are looked at).
C21_InvalidColumnsRefused ==
    [][(InvalidCreate /\ ~table_exists(sm, last'.table)) => RefusedAsInvalid]_vars

\* a column list with two primary keys was refused for a new table name,
\* after another table had been created
C21_Witness ==
    /\ last.op = "create_table_with_schema"
    /\ last.columns = <<IdColumn(0, TRUE), VColumn(1, TRUE)>>
    /\ last.err = "InvalidData"
    /\ last.table \notin DOMAIN sm.table_roots
    /\ DOMAIN sm.table_schemas # {}
    /\ Len(allocs) = 2

\* C22: validate_row fails, with InvalidData, exactly when the row's value
\* count differs from the column count, or some column is non-nullable and
\* its value is Null, or some column's value is not Null and of a type other
\* than the column's (an Integer in a Real column and a Boolean in an Integer
\* column are accepted); otherwise it returns Ok.
Coercible(value_type, data_type) ==
    \/ value_type = data_type
    \/ value_type = "Integer" /\ data_type = "Real"
    \/ value_type = "Boolean" /\ data_type = "Integer"

RowRejected(columns, values) ==
    \/ Len(values) # Len(columns)
    \/ \E c \in 1..Len(columns) :
          LET v == values[columns[c].position + 1]
          IN  \/ ~columns[c].nullable /\ v = VNull
              \/ v # VNull /\ ~Coercible(v.t, columns[c].data_type)

C22_ValidateRowExact ==
    last.op = "validate_row" =>
        /\ last.ok <=> ~RowRejected(last.columns, last.values)
        /\ ~last.ok => last.err = "InvalidData"

\* a Boolean for the Integer column at position 0 and an Integer for the
\* Real column at position 1, listed in the other order, are accepted
C22_Witness ==
    /\ last.op = "validate_row"
    /\ last.ok
    /\ Len(last.columns) = 2
    /\ last.columns[1].position = 1
    /\ last.columns[1].data_type = "Real"
    /\ ~last.columns[1].nullable
    /\ last.columns[2].data_type = "Integer"
    /\ last.values = <<VBool(TRUE), VInt(1)>>

\* C23: every row, with or without a row id and with any mix of value
\* variants, decodes from its own bytes to the same row, and its bytes are
\* as many as its size() says.
C23_RowRoundTrip ==
    /\ last.op \in {"to_bytes", "from_bytes"} => BLen(last.bytes) = last.size
    /\ last.op = "from_bytes" => last.ok /\ last.decoded = last.row

\* a row with a row id, a Real and a Blob has been encoded and decoded
C23_Witness ==
    /\ last.op = "from_bytes"
    /\ last.row = [row_id |-> 70000, values |-> <<VReal(1), VBlob(BRun(0, 300))>>]
    /\ last.decoded = last.row
    /\ last.size = 1 + 8 + 4 + 9 + 5 + 300

\* the steps of one kind the last insert took
Steps(kind) == {i \in 1..Len(last.trace) : last.trace[i].kind = kind}

\* the cells of a page, in slot order
CellData(p) == [i \in 1..Len(p.slots) |-> get_cell(p, i - 1).bytes]

\* the keys of the cells of a leaf
LeafKeys(p) == [i \in 1..Len(p.slots) |-> Row_from_bytes(CellData(p)[i]).row.values[1]]

Occurrences(s, x) == Cardinality({i \in 1..Len(s) : s[i] = x})
SameCells(s, t) ==
    /\ Len(s) = Len(t)
    /\ \A i \in 1..Len(s) : Occurrences(s, s[i]) = Occurrences(t, s[i])

\* a leaf split step e left the floor(n/2) smallest of the n cells (those of
\* the full leaf and the incoming one) in the original page and the rest in
\* the new right leaf, and returned the first key of the right leaf
ProperLeafSplit(e) ==
    LET all == Append(CellData(e.page), e.data)
        l == e.split.left_page
        r == e.split.right_page
    IN  /\ e.ok
        /\ l.page_id = e.page.page_id
        /\ Len(l.slots) = Len(all) \div 2
        /\ SameCells(CellData(l) \o CellData(r), all)
        /\ Ascending(LeafKeys(l) \o LeafKeys(r))
        /\ e.split.separator_key = LeafKeys(r)[1]

\* C24: a leaf split gathers the cells of the full leaf and the incoming one,
\* sorts them by key, leaves the floor(n/2) smallest in the original page and
\* the rest in a new right leaf, and returns the first key of the right leaf
\* as separator; no cell, overflow-pointer cells included, is dropped or
\* duplicated.
C24_LeafSplitKeepsCells ==
    last.op = "insert" => \A i \in Steps("leaf_split") : ProperLeafSplit(last.trace[i])

\* the next_leaf chain of the file from one page on, as page ids; fuel
\* bounds a chain that runs in a circle
RECURSIVE LeafChain(_, _, _)
LeafChain(pages, page_id, fuel) ==
    IF fuel = 0 \/ page_id < 1 \/ page_id > Len(pages) THEN <<>>
    ELSE <<page_id>> \o LeafChain(pages, pages[page_id].next_leaf, fuel - 1)

\* the leaf pages of the file
LeafIds(pages) == {p \in 1..Len(pages) : pages[p].page_type = "LeafTable"}

\* the chain from the leftmost leaf visits every leaf of the file once
ChainVisitsEveryLeaf(pages, root_page_id) ==
    LET first == find_first_leaf(pages, root_page_id)
        chain == LeafChain(pages, first.leaf, Len(pages) + 1)
    IN  /\ first.ok
        /\ {chain[i] : i \in 1..Len(chain)} = LeafIds(pages)
        /\ Len(chain) = Cardinality(LeafIds(pages))

\* a leaf split step e hooked the new right leaf in behind the left one
LinkedSplit(e) ==
    /\ e.ok
    /\ e.split.right_page.next_leaf_page_id = e.page.next_leaf_page_id
    /\ e.split.left_page.next_leaf_page_id = e.split.right_page.page_id

\* C25: each leaf split sets right.next to the previous next of the left
\* leaf and left.next to the new right leaf, and these links reach the file:
\* after successful inserts the next_leaf chain read from the file from the
\* leftmost leaf visits every leaf exactly once.
C25_LeafChainOnDisk ==
    (last.op = "insert" /\ count.errors = 0) =>
        /\ \A i \in Steps("leaf_split") : LinkedSplit(last.trace[i])
        /\ ChainVisitsEveryLeaf(tree.pages, tree.root_page_id)

\* the separator keys of the entries of an interior page, in slot order
InteriorKeys(p) == [i \in 1..Len(p.slots) |-> parse_interior_entry(CellData(p)[i]).key]

\* an interior split step e took the key of the middle one of the n sorted
\* entries (those of the full page and the incoming one) as separator, left
\* the floor(n/2) entries below it in the original page, put the entries
\* above it in the new right page and kept the middle entry in neither
ProperInteriorSplit(e) ==
    LET all == Append(CellData(e.page), e.data)
        l == e.split.left_page
        r == e.split.right_page
    IN  /\ e.ok
        /\ l.page_id = e.page.page_id
        /\ Len(l.slots) = Len(all) \div 2
        /\ Len(l.slots) + Len(r.slots) + 1 = Len(all)
        /\ \E m \in 1..Len(all) :
              /\ parse_interior_entry(all[m]).key = e.split.separator_key
              /\ SameCells(CellData(l) \o <<all[m]>> \o CellData(r), all)
              /\ \A i \in 1..Len(l.slots) : CellData(l)[i] # all[m]
              /\ \A i \in 1..Len(r.slots) : CellData(r)[i] # all[m]
        /\ Ascending(InteriorKeys(l) \o <<e.split.separator_key>> \o InteriorKeys(r))

\* C26: an interior split gathers the entries of the full page and the new
\* entry, sorts them by key, takes the key at floor(n/2) as separator and
\* stores that entry in neither page; the entries below it stay in the left
\* page and those above it go to the right page.
C26_InteriorSplitPromotes ==
    last.op = "insert" => \A i \in Steps("interior_split") : ProperInteriorSplit(last.trace[i])

\* a full interior page of four entries has been split around the middle
\* one of its five entries
C26_Witness ==
    /\ last.op = "insert"
    /\ last.ok
    /\ \E i \in Steps("interior_split") :
          /\ Len(last.trace[i].page.slots) = 4
          /\ Len(last.trace[i].split.left_page.slots) = 2
          /\ Len(last.trace[i].split.right_page.slots) = 2

\* the entries of an interior page whose separator is not below the key
NotBelow(p, key) == {i \in 1..Len(p.slots) : ValueLe(key, InteriorKeys(p)[i])}

\* the child of entry i of an interior page
ChildAt(p, i) == parse_interior_entry(CellData(p)[i]).page_id

\* a descent step e went into the child of the first entry whose separator
\* is not below the key, and into the child of the last entry when there is
\* no such entry
ProperDescent(e) ==
    LET ge == NotBelow(e.page, e.key)
    IN  e.child = IF ge = {} THEN ChildAt(e.page, Len(e.page.slots))
                  ELSE ChildAt(e.page, CHOOSE i \in ge : \A j \in ge : i <= j)

\* C27: at an interior page insert descends into the child of the first
\* entry whose separator is greater than or equal to the key, and into the
\* rightmost child when no entry is.
C27_DescentByFirstSeparator ==
    last.op = "insert" => \A i \in Steps("descend") : ProperDescent(last.trace[i])

\* a descent that passed the first entry and stopped at an entry before
\* the last one
C27_Witness ==
    /\ last.op = "insert"
    /\ \E i \in Steps("descend") :
          LET ge == NotBelow(last.trace[i].page, last.trace[i].key)
          IN  /\ ge # {}
              /\ 1 \notin ge
              /\ last.trace[i].child # ChildAt(last.trace[i].page, 1)
              /\ last.trace[i].child # ChildAt(last.trace[i].page, Len(last.trace[i].page.slots))

\* the steps of the insert just made that split the page that was the root
RootSplits ==
    {i \in 1..Len(last'.trace) :
        /\ last'.trace[i].kind \in {"leaf_split", "interior_split"}
        /\ last'.trace[i].page.page_id = tree.root_page_id}

\* the file page of the new root is an interior page of the two entries
\* (separator, left id) and (Null, right id), on a page id the file did not
\* have, and insert returned its id
RootOver(split) ==
    LET id == tree'.root_page_id
        p == LoadedPage(tree'.pages[id], TRUE)
    IN  /\ last'.ret = id
        /\ id > Len(tree.pages)
        /\ \A i \in 1..Len(allocs) : allocs[i].id # id
        /\ p.page_type = "InteriorTable"
        /\ p.page_id = id
        /\ Len(p.slots) = 2
        /\ InteriorKeys(p) = <<split.separator_key, VNull>>
        /\ <<ChildAt(p, 1), ChildAt(p, 2)>> = <<split.left_page.page_id, split.right_page.page_id>>

\* C28: when a split propagates past the root, insert allocates a fresh
\* InteriorTable page holding exactly the entries (separator, left id) and
\* (Null, right id) in this order, makes it the root and returns its id;
\* otherwise it returns None and the root stays as it was.
C28_NewRootOverSplit ==
    [][(last'.op = "insert" /\ last'.ok /\ count'.inserts = count.inserts + 1) =>
          IF RootSplits # {}
          THEN \E i \in RootSplits : RootOver(last'.trace[i].split)
          ELSE last'.ret = None /\ tree'.root_page_id = tree.root_page_id]_vars

\* the root over a split interior root: page 8 over pages 3 and 7
C28_Witness ==
    /\ last.op = "insert"
    /\ last.ok
    /\ last.ret = tree.root_page_id
    /\ Steps("interior_split") # {}
    /\ Steps("new_root") # {}
    /\ Len(LoadedPage(tree.pages[tree.root_page_id], TRUE).slots) = 2

\* the file holds the bytes of page p under p's id
OnFile(p) == p.page_id \in 1..Len(tree.pages) /\ tree.pages[p.page_id] = to_bytes(p)

\* the pages a step of insert mutated are on the file: the page after the
\* step for a leaf insert, an absorbed split and a new root, both halves
\* for a split
StepWritten(e) ==
    IF e.kind \in {"leaf_split", "interior_split"}
    THEN OnFile(e.split.left_page) /\ OnFile(e.split.right_page)
    ELSE e.kind \in {"leaf_insert", "absorb", "new_root"} => OnFile(e.page)

\* C29: when insert returns Ok every page it mutated has been written to
\* the file: the target leaf, both halves of every leaf and interior split,
\* every interior page that absorbed a split and the new root, also when a
\* leaf split is followed by the split of its parent.
C29_MutatedPagesWritten ==
    (last.op = "insert" /\ last.ok) => \A i \in 1..Len(last.trace) : StepWritten(last.trace[i])

\* C30: after every mutation through a tree, each page of its cache is the
\* page the file holds under the same id, and the cache entry keyed p holds
\* the page whose page_id is p.
C30_CacheAgreesWithFile ==
    (last.op = "insert" /\ last.err # "Panic") =>
        \A p \in DOMAIN tree.page_cache :
            /\ tree.page_cache[p].page_id = p
            /\ p \in 1..Len(tree.pages)
            /\ tree.pages[p] = to_bytes(tree.page_cache[p])

\* a tree whose cache holds the root, a leaf that took the row and the two
\* halves of an earlier split
C30_Witness ==
    /\ last.op = "insert"
    /\ last.ok
    /\ Steps("descend") # {}
    /\ Steps("leaf_insert") # {}
    /\ Cardinality(DOMAIN tree.page_cache) >= 4
    /\ tree.root_page_id \in DOMAIN tree.page_cache

\* the overflow pages the insert just made added to the file
NewOverflowPages ==
    {p \in (Len(tree.pages) + 1)..Len(tree'.pages) : tree'.pages[p].page_type = "OverflowPage"}

\* a cached leaf holds a 12-byte cell flagged is_overflow that points to
\* overflow page o with the total size n
PointerCellFor(o, n) ==
    \E p \in DOMAIN tree'.page_cache :
        /\ tree'.page_cache[p].page_type = "LeafTable"
        /\ \E i \in 1..Len(tree'.page_cache[p].slots) :
              /\ tree'.page_cache[p].slots[i].is_overflow
              /\ tree'.page_cache[p].slots[i].length = SERIALIZED_SIZE
              /\ CellData(tree'.page_cache[p])[i] = serialize_to_vec(<<o, n>>)
              /\ CellData(LoadedPage(tree'.pages[p], TRUE))[i] = serialize_to_vec(<<o, n>>)

\* C31: inserting a row whose bytes are more than 1024 allocates exactly
\* one new OverflowPage that holds the payload, and the leaf stores for it
\* a 12-byte pointer cell (overflow page id, total size) flagged
\* is_overflow, whether or not the leaf has to split to take the row.
C31_OverflowRowGetsPointer ==
    [][(/\ last'.op = "insert"
        /\ last'.ok
        /\ count'.inserts = count.inserts + 1
        /\ BLen(Row_to_bytes(last'.row)) > PAGE_SIZE \div 4) =>
          \E o \in NewOverflowPages :
              /\ NewOverflowPages = {o}
              /\ CellData(LoadedPage(tree'.pages[o], TRUE)) = <<Row_to_bytes(last'.row)>>
              /\ PointerCellFor(o, BLen(Row_to_bytes(last'.row)))]_vars

\* C32: inserting a row without values through the tree returns a
\* CorruptedDatabase error and leaves the tree, its cache and the file
\* unchanged.
C32_EmptyRowRefused ==
    [][(/\ last'.op = "insert"
        /\ count'.inserts = count.inserts + 1
        /\ last'.row.values = <<>>) =>
          /\ ~last'.ok
          /\ last'.err = "CorruptedDatabase"
          /\ tree' = tree]_vars

\* C33: once scan() has returned None the scanner is marked exhausted, and
\* from an exhausted scanner every scan() returns None and every
\* scan_batch() returns an empty list, the scanner staying exhausted, until
\* reset() is called.
C33_ExhaustedStays ==
    /\ (last.op = "scan" /\ last.kind = "none") => scanner.is_exhausted
    /\ (last.op \in {"scan", "scan_batch"} /\ last.from.is_exhausted) =>
           /\ last.kind = (IF last.op = "scan" THEN "none" ELSE "ok")
           /\ last.rows = <<>>
           /\ scanner = last.from
    /\ (last.op = "scan_batch" /\ last.kind = "ok" /\ Len(last.rows) < last.k) =>
           scanner.is_exhausted

\* a scan() of a scanner that an earlier scan() over three leaves exhausted
C33_Witness ==
    /\ last.op = "scan"
    /\ last.from.is_exhausted
    /\ last.kind = "none"
    /\ Len(scanned) = MaxScanInserts
    /\ tree.next_page_id > 4

\* a scan_batch() of an exhausted scanner over two leaves
C33_WitnessBatch ==
    /\ last.op = "scan_batch"
    /\ last.from.is_exhausted
    /\ last.rows = <<>>
    /\ last.k = MaxBatch
    /\ tree.root_page_id # 1

\* the slot directory of a page of the file, as the scanner loads it
FileSlots(page_id) == from_header_bytes(tree.pages[page_id]).page.slots

\* the next leaf of a page of the file
FileNextLeaf(page_id) == from_header_bytes(tree.pages[page_id]).page.next_leaf_page_id

\* the first slot that is not a tombstone at or after slot i (0-based) of
\* the leaf page_id, looking on along the chain of leaves: [some, page, slot]
RECURSIVE NextLive(_, _, _)
NextLive(page_id, i, fuel) ==
    IF fuel = 0 \/ page_id = None THEN [some |-> FALSE, page |-> None, slot |-> 0]
    ELSE IF i >= Len(FileSlots(page_id)) THEN NextLive(FileNextLeaf(page_id), 0, fuel - 1)
    ELSE IF is_deleted(FileSlots(page_id)[i + 1]) THEN NextLive(page_id, i + 1, fuel)
    ELSE [some |-> TRUE, page |-> page_id, slot |-> i]

\* the bytes of a cell of the file
FileCell(page_id, i) ==
    BSlice(tree.pages[page_id].data, FileSlots(page_id)[i + 1].offset,
           FileSlots(page_id)[i + 1].offset + FileSlots(page_id)[i + 1].length)

\* the cells of the leaves of the file that are not tombstones, in chain and
\* slot order from slot i of the leaf page_id
RECURSIVE LiveCells(_, _, _)
LiveCells(page_id, i, fuel) ==
    LET n == NextLive(page_id, i, fuel)
    IN  IF ~n.some \/ fuel = 0 THEN <<>>
        ELSE <<FileCell(n.page, n.slot)>> \o LiveCells(n.page, n.slot + 1, fuel - 1)

\* where a scan() of a scanner starts to look
ScanStart(sc) ==
    IF sc.current_page_id = None THEN [page |-> sc.root_page_id, slot |-> 0]
    ELSE [page |-> sc.current_page_id, slot |-> sc.current_slot_index]

ChainFuel == Len(tree.pages) + TotalSlots(tree.pages) + 1

\* C34: scan() steps over tombstoned slots without output and without
\* error and returns the next cell that is not a tombstone, in slot and
\* chain order; a cell that does not decode is an error returned to the
\* caller, the slot index stays on it and the next scan() fails on it
\* again; a scan that reached the end returned every live cell in order.
C34_ScanSkipsOnlyTombstones ==
    /\ (last.op = "scan" /\ ~last.from.is_exhausted) =>
           LET s == ScanStart(last.from)
               n == NextLive(s.page, s.slot, ChainFuel)
           IN  IF ~n.some THEN last.kind = "none" /\ scanner.is_exhausted
               ELSE IF Row_from_bytes(FileCell(n.page, n.slot)).ok
               THEN /\ last.kind = "row"
                    /\ last.rows = <<Row_from_bytes(FileCell(n.page, n.slot)).row>>
                    /\ scanner.current_page_id = n.page
                    /\ scanner.current_slot_index = n.slot + 1
               ELSE /\ last.kind = "err"
                    /\ scanner.current_page_id = n.page
                    /\ scanner.current_slot_index = n.slot
                    /\ scan(scanner, tree.pages).kind = "err"
                    /\ scan(scanner, tree.pages).sc = scanner
    /\ (scanner # NoScanner /\ scanner.is_exhausted) =>
           LET cells == LiveCells(scanner.root_page_id, 0, ChainFuel)
           IN  /\ Len(scanned) = Len(cells)
               /\ \A i \in 1..Len(cells) : cells[i] = Row_to_bytes(scanned[i])

\* a scan() stepped over a tombstone and returned the row behind it
C34_Witness ==
    /\ last.op = "scan"
    /\ last.kind = "row"
    /\ last.from.current_page_id # None
    /\ scanner.current_page_id = last.from.current_page_id
    /\ scanner.current_slot_index = last.from.current_slot_index + 2
    /\ is_deleted(FileSlots(scanner.current_page_id)[last.from.current_slot_index + 1])

\* a scan() stepped over a tombstone and failed on the cell behind it, after
\* an earlier scan() had returned a row
C34_WitnessError ==
    /\ last.op = "scan"
    /\ last.kind = "err"
    /\ scanned # <<>>
    /\ last.from.current_page_id # None
    /\ scanner.current_page_id = last.from.current_page_id
    /\ scanner.current_slot_index = last.from.current_slot_index + 1
    /\ is_deleted(FileSlots(scanner.current_page_id)[last.from.current_slot_index + 1])

\* a scan() over a tombstone in the first leaf ended with the rows of both
\* leaves
C34_WitnessChain ==
    /\ last.op = "scan"
    /\ last.kind = "none"
    /\ scanner.is_exhausted
    /\ scanner.current_page_id = 2
    /\ Len(scanned) = 2
    /\ \E i \in 1..Len(FileSlots(1)) : is_deleted(FileSlots(1)[i])

\* the slots of a page that are not tombstones (1-based indices)
LiveSlotSet(p) == {i \in 1..Len(p.slots) : ~is_deleted(p.slots[i])}

RECURSIVE SumLengths(_, _)
SumLengths(p, S) ==
    IF S = {} THEN 0
    ELSE LET i == CHOOSE x \in S : TRUE IN p.slots[i].length + SumLengths(p, S \ {i})

\* the live cells lie end to end in slot order, the last one at the page end
DenseFrom(p) ==
    \A i \in LiveSlotSet(p) :
        p.slots[i].offset + p.slots[i].length =
            (IF \E j \in LiveSlotSet(p) : j > i
             THEN p.slots[CHOOSE j \in LiveSlotSet(p) :
                              j > i /\ \A k \in LiveSlotSet(p) : k > i => j <= k].offset
             ELSE PAGE_SIZE)

\* the byte ranges of two live cells do not meet
DisjointCells(p) ==
    \A i, j \in LiveSlotSet(p) :
        i # j => \/ p.slots[i].offset + p.slots[i].length <= p.slots[j].offset
                 \/ p.slots[j].offset + p.slots[j].length <= p.slots[i].offset

\* C35: after compact() returns Ok the live cells are dense against the page
\* end: 4096 - free_space_offset is the sum of the lengths of the slots that
\* are not tombstones, their byte ranges are pairwise disjoint and
\* contiguous, and available_space() is at least what it was before.
C35_CompactIsDense ==
    (last.op = "compact" /\ last.ok) =>
        /\ PAGE_SIZE - page.free_space_offset = SumLengths(page, LiveSlotSet(page))
        /\ DisjointCells(page)
        /\ DenseFrom(page)
        /\ \A i \in LiveSlotSet(page) : page.slots[i].offset >= page.free_space_offset
        /\ available_space(page) >= available_space(before)

\* a compaction of a page with two live cells and room to win back
C35_Witness ==
    /\ last.op = "compact"
    /\ last.ok
    /\ Cardinality({i \in LiveSlotSet(page) : page.slots[i].length > 0}) = 2
    /\ available_space(page) > available_space(before)

\* the checksum a page of the file carries is the checksum of its fields
\* and contents
ChecksumHolds(buf) == verify_checksum(LoadedPage(buf, TRUE))

\* C36: every page the tree writes to the file carries a checksum
\* consistent with its header fields and contents, and no insert made
\* through a fresh tree fails on the checksum of a page of the table.
C36_WrittenPagesVerify ==
    /\ \A i \in 1..Len(file.pages) :
           file.pages[i].page_type \in PageTypes => ChecksumHolds(file.pages[i])
    /\ last.op = "insert_into_table" => last.err # "CorruptedPage"

\* a page of the file of the tree, as load_page reads it
FilePage(page_id) == LoadedPage(tree.pages[page_id], TRUE)

\* the children an interior page of the file points to
ChildrenOf(page_id) ==
    IF page_id \in 1..Len(tree.pages) /\ tree.pages[page_id].page_type = "InteriorTable"
    THEN {ChildAt(FilePage(page_id), i) : i \in 1..Len(FilePage(page_id).slots)}
    ELSE {}

\* the pages reachable from a set of pages through child pointers
RECURSIVE ReachableFrom(_, _)
ReachableFrom(S, fuel) ==
    LET T == S \cup UNION {ChildrenOf(p) : p \in S}
    IN  IF fuel = 0 \/ T = S THEN S ELSE ReachableFrom(T, fuel - 1)

\* the leaf at which the descent by find_child_page(key) ends (0: nowhere)
RECURSIVE KeyDescent(_, _, _)
KeyDescent(key, page_id, fuel) ==
    IF fuel = 0 \/ page_id \notin 1..Len(tree.pages) THEN 0
    ELSE IF tree.pages[page_id].page_type = "LeafTable" THEN page_id
    ELSE IF tree.pages[page_id].page_type # "InteriorTable" THEN 0
    ELSE LET c == find_child_page(FilePage(page_id), key)
         IN  IF c.ok THEN KeyDescent(key, c.child, fuel - 1) ELSE 0

\* the keys a leaf of the file holds
KeysAt(page_id) == {LeafKeys(FilePage(page_id))[i] : i \in 1..Len(FilePage(page_id).slots)}

AllLeavesReachable ==
    LeafIds(tree.pages) \subseteq ReachableFrom({tree.root_page_id}, Len(tree.pages))

FirstChildReachesHead ==
    LET f == find_first_leaf(tree.pages, tree.root_page_id)
    IN  /\ f.ok
        /\ \A p \in LeafIds(tree.pages) : tree.pages[p].next_leaf # f.leaf

DescentFindsKeys ==
    \A k \in KeySet(inserted[NameA]) :
        LET d == KeyDescent(k, tree.root_page_id, Len(tree.pages) + 1)
        IN  d # 0 /\ k \in KeysAt(d)

\* C37: after successful inserts the tree is a valid search tree: every
\* leaf is reachable from the root through child pointers, the first-child
\* descent from the root reaches the head of the leaf chain, and for every
\* inserted key the descent chosen by find_child_page ends at the leaf that
\* holds the key.
C37_ValidSearchTree ==
    (last.op = "insert" /\ count.errors = 0) =>
        /\ AllLeavesReachable
        /\ FirstChildReachesHead
        /\ DescentFindsKeys

\* C38: create_table(T2) and inserts into T2 leave every other table
\* untouched: after any earlier operations, the scan of a table T1 returns
\* the same rows before and after the call, and an insert leaves the rows of
\* the catalog as they were.
C38_OtherTablesUntouched ==
    [][(last'.op \in {"create_table", "insert_into_table"} /\ count' # count) =>
          /\ \A t \in Tables \ {last'.table} :
                 scan_table(sm', file', t) = scan_table(sm, file, t)
          /\ last'.op = "insert_into_table" =>
                 ScanAll(file'.pages, 1) = ScanAll(file.pages, 1)]_vars

PageOps == {"insert_cell", "insert_cell_with_overflow", "update_cell", "delete_cell", "compact"}

\* C39: a page operation (insert_cell, insert_cell_with_overflow,
\* update_cell, delete_cell, compact) that returns an error leaves the page
\* as it was: slot directory, cell_count, free_space_offset, data,
\* overflow_pages, dirty flag and checksum.
C39_ErrorLeavesPage ==
    (last.op \in PageOps /\ ~last.ok) => page = before

\* the first-child descent from the root of the scanner ends at a leaf
DescentEnds ==
    /\ find_first_leaf(tree.pages, scanner.root_page_id).ok
    /\ ~find_first_leaf(tree.pages, scanner.root_page_id).loops

\* the next_leaf chain from the first leaf ends and visits no leaf twice
ChainAcyclic ==
    LET chain == LeafChain(tree.pages, find_first_leaf(tree.pages, scanner.root_page_id).leaf,
                           Len(tree.pages) + 1)
    IN  /\ Len(chain) <= Len(tree.pages)
        /\ \A i, j \in 1..Len(chain) : chain[i] = chain[j] => i = j

====
